---------------------------- MODULE Spec2Model ----------------------------
(***************************************************************************)
(* A model of slpagora: the CashAddr address codec (address.rs), the       *)
(* script model and its serialization (script.rs), the sighash preimage    *)
(* and the transaction builder (incomplete_tx.rs, tx.rs), the output       *)
(* descriptors with the EnforceOutputs covenant (outputs.rs), the script   *)
(* interpreter (script_interpreter.rs) and the accept-offer flow           *)
(* (trade.rs).                                                             *)
(*                                                                         *)
(* Strings are sequences of ASCII codes.  The 40-bit checksum register of  *)
(* poly_mod is kept as eight 5-bit limbs, most significant first.          *)
(***************************************************************************)
EXTENDS Integers, Sequences, FiniteSets, TLC

VARIABLES
    text,       \* address codec: the address string handed to the decoder
    origin,     \* address codec: how `text` was produced
    decoded,    \* address codec: the result of from_cash_addr(text)
    address     \* address codec: the Address value a constructor returned

VARIABLES
    written,    \* scripts: an Op and the bytes write_to_stream wrote for it
    fragments,  \* preimage: a PreImage and what was written of it
    accept,     \* accept flow: what accept_trades_interactive built
    spend,      \* covenant: a candidate spend of an EnforceOutputs UTXO
    interp      \* covenant: the ScriptInterpreter and the ops still to run

VARIABLES
    call,       \* pure functions: the latest application and its result
    proc,       \* program: where the process is, and how it ended
    disk,       \* program: the wallet file
    chain       \* program: what the network returns and what was sent to it

addrVars == <<text, origin, decoded, address>>

txVars == <<written, fragments, accept, spend, interp>>

restVars == <<call, proc, disk, chain>>

VARIABLES
    builder,    \* builder: an IncompleteTx and the latest call on it
    product     \* builder: what the latest call on it returned

buildVars == <<builder, product>>

vars == <<addrVars, txVars, restVars, buildVars>>

(***************************************************************************)
(* Bounds of the model.                                                    *)
(***************************************************************************)
MaxSeed == 1        \* hash patterns start at byte 85 * s, s in 0..MaxSeed
MaxStride == 1      \* hash patterns step by m per byte, m in 0..MaxStride
MaxTxSeed == 1      \* transaction id patterns start at 16 * s, s in 0..MaxTxSeed
MaxUtxos == 2       \* get_utxos returns at most MaxUtxos UTXOs
MaxFlipSeed == 0    \* digit replacement is explored for seeds 0..MaxFlipSeed
MaxOddLen == 2      \* payloads of 0..MaxOddLen hash bytes (not 20) are encoded
MaxRepackLen == 4   \* every sequence of 0..MaxRepackLen bytes over three values is repacked
MaxRuns == 2        \* the program is started at most MaxRuns times
MaxFunding == 2     \* the covenant address receives at most MaxFunding UTXOs

(***************************************************************************)
(* address.rs                                                              *)
(***************************************************************************)
\* b"qpzry9x8gf2tvdw0s3jn54khce6mua7l"
CHARSET ==
    <<113, 112, 122, 114, 121, 57, 120, 56, 103, 102, 50, 116, 118, 100, 119,
      48, 115, 51, 106, 110, 53, 52, 107, 104, 99, 101, 54, 109, 117, 97, 55,
      108>>

\* "bitcoincash"
DEFAULT_PREFIX == <<98, 105, 116, 99, 111, 105, 110, 99, 97, 115, 104>>

\* "simpleledger", the prefix the trade flows pass to from_bytes_prefix
SLP_PREFIX == <<115, 105, 109, 112, 108, 101, 108, 101, 100, 103, 101, 114>>

COLON == 58

AddressTypes == {"P2PKH", "P2SH"}

\* `addr_type as u8`
AddrTypeByte(addr_type) == IF addr_type = "P2PKH" THEN 0 ELSE 8

Pow2(n) == 2 ^ n

RECURSIVE ConvertBitsEmit(_, _, _, _)
\* the inner `while bits >= to_bits` loop
ConvertBitsEmit(acc, bits, ret, to_bits) ==
    IF bits >= to_bits
    THEN ConvertBitsEmit(acc, bits - to_bits,
             Append(ret, (acc \div Pow2(bits - to_bits)) % Pow2(to_bits)),
             to_bits)
    ELSE [bits |-> bits, ret |-> ret]

RECURSIVE ConvertBitsLoop(_, _, _, _, _, _, _)
\* the `for value in data` loop; ok = FALSE is the early `return None`
ConvertBitsLoop(data, i, acc, bits, ret, from_bits, to_bits) ==
    IF i > Len(data)
    THEN [ok |-> TRUE, acc |-> acc, bits |-> bits, ret |-> ret]
    ELSE IF data[i] \div Pow2(from_bits) # 0
    THEN [ok |-> FALSE, acc |-> acc, bits |-> bits, ret |-> ret]
    ELSE LET acc1 == (acc * Pow2(from_bits) + data[i])
                         % Pow2(from_bits + to_bits - 1)
             e == ConvertBitsEmit(acc1, bits + from_bits, ret, to_bits)
         IN  \* the test makes TLC compute e before the next iteration
             IF e.bits >= 0
             THEN ConvertBitsLoop(data, i + 1, acc1, e.bits, e.ret,
                                  from_bits, to_bits)
             ELSE [ok |-> FALSE, acc |-> acc, bits |-> bits, ret |-> ret]

\* convert_bits whose padding branch pushes the leftover bits unshifted
ConvertBitsPadUnshifted(data, from_bits, to_bits, pad) ==
    LET l == ConvertBitsLoop(data, 1, 0, 0, <<>>, from_bits, to_bits)
        last == l.acc % Pow2(to_bits)
    IN  IF ~l.ok THEN [some |-> FALSE, v |-> <<>>]
        ELSE IF pad
        THEN [some |-> TRUE,
              v |-> IF l.bits # 0 THEN Append(l.ret, last) ELSE l.ret]
        ELSE IF l.bits >= from_bits \/ last # 0
        THEN [some |-> FALSE, v |-> <<>>]
        ELSE [some |-> TRUE, v |-> l.ret]

\* convert_bits: [some |-> FALSE] is None
ConvertBits(data, from_bits, to_bits, pad) ==
    LET l == ConvertBitsLoop(data, 1, 0, 0, <<>>, from_bits, to_bits)
        last == (l.acc * Pow2(to_bits - l.bits)) % Pow2(to_bits)
    IN  IF ~l.ok THEN [some |-> FALSE, v |-> <<>>]
        ELSE IF pad
        THEN [some |-> TRUE,
              v |-> IF l.bits # 0 THEN Append(l.ret, last) ELSE l.ret]
        ELSE IF l.bits >= from_bits \/ last # 0
        THEN [some |-> FALSE, v |-> <<>>]
        ELSE [some |-> TRUE, v |-> l.ret]

RECURSIVE XorBits(_, _, _)
XorBits(a, b, n) ==
    IF n = 0 THEN 0
    ELSE ((a + b) % 2) + 2 * XorBits(a \div 2, b \div 2, n - 1)

\* `^` on 5-bit limbs
Xor5 == [a \in 0..31 |-> [b \in 0..31 |-> XorBits(a, b, 5)]]

XorLimbs(x, y) ==
    <<Xor5[x[1]][y[1]], Xor5[x[2]][y[2]], Xor5[x[3]][y[3]], Xor5[x[4]][y[4]],
      Xor5[x[5]][y[5]], Xor5[x[6]][y[6]], Xor5[x[7]][y[7]], Xor5[x[8]][y[8]]>>

\* 0x98f2bc8e61, 0x79b76d99e2, 0xf33e5fb3c4, 0xae2eabe2a8, 0x1e4f43e470
GENERATOR ==
    << <<19, 3, 25, 11, 25, 3, 19, 1>>,
       <<15, 6, 27, 22, 27, 6, 15, 2>>,
       <<30, 12, 31, 5, 31, 12, 30, 4>>,
       <<21, 24, 23, 10, 23, 24, 21, 8>>,
       <<3, 25, 7, 20, 7, 25, 3, 16>> >>

ZeroLimbs == <<0, 0, 0, 0, 0, 0, 0, 0>>

\* a u8 widened to u64, as limbs
ByteLimbs(value) == <<0, 0, 0, 0, 0, 0, value \div 32, value % 32>>

RECURSIVE PolyModFeedback(_, _, _)
\* the five `if c0 & (1 << k) != 0 { c ^= GENERATOR[k] }` lines
PolyModFeedback(c, c0, k) ==
    IF k > 5 THEN c
    ELSE PolyModFeedback(
             IF (c0 \div Pow2(k - 1)) % 2 = 1 THEN XorLimbs(c, GENERATOR[k])
             ELSE c,
             c0, k + 1)

\* a variant that drops the generator feedback
PolyModStepNoFeedback(c, value) ==
    XorLimbs(<<c[2], c[3], c[4], c[5], c[6], c[7], c[8], 0>>, ByteLimbs(value))

\* one iteration of poly_mod's loop
PolyModStep(c, value) ==
    PolyModFeedback(
        XorLimbs(<<c[2], c[3], c[4], c[5], c[6], c[7], c[8], 0>>,
                 ByteLimbs(value)),
        c[1], 1)

RECURSIVE PolyModLoop(_, _, _)
PolyModLoop(values, i, c) ==
    IF i > Len(values) THEN c
    ELSE LET c1 == PolyModStep(c, values[i])
         IN  \* the test makes TLC compute c1 before the next iteration
             IF c1[8] >= 0 THEN PolyModLoop(values, i + 1, c1) ELSE c1

\* poly_mod: c starts at 1, the result is c ^ 1
PolyMod(values) ==
    XorLimbs(PolyModLoop(values, 1, ByteLimbs(1)), ByteLimbs(1))

\* prefix bytes masked with 0x1f, then the 0 separator
PrefixLow5(prefix) == [i \in 1..Len(prefix) |-> prefix[i] % 32] \o <<0>>

\* a variant that stuffs seven zeros instead of eight
CalculateChecksumShort(prefix, payload) ==
    PolyMod(PrefixLow5(prefix) \o payload \o <<0, 0, 0, 0, 0, 0, 0>>)

\* calculate_checksum: limb i is (poly >> 5 * (7 - i)) & 0x1f
CalculateChecksum(prefix, payload) ==
    PolyMod(PrefixLow5(prefix) \o payload \o <<0, 0, 0, 0, 0, 0, 0, 0>>)

VerifyChecksum(prefix, payload) ==
    PolyMod(PrefixLow5(prefix) \o payload) = ZeroLimbs

B32Encode(data) == [i \in 1..Len(data) |-> CHARSET[data[i] + 1]]

CharsetPosition(x) ==
    IF \E p \in 1..32 : CHARSET[p] = x
    THEN (CHOOSE p \in 1..32 : CHARSET[p] = x) - 1
    ELSE -1

\* b32_decode: the first letter outside the alphabet is the error
B32Decode(string) ==
    LET bad == {i \in 1..Len(string) : CharsetPosition(string[i]) = -1}
        first == CHOOSE i \in bad : \A j \in bad : i <= j
    IN  IF bad = {}
        THEN [ok |-> TRUE, index |-> 0, byte |-> 0,
              v |-> [i \in 1..Len(string) |-> CharsetPosition(string[i])]]
        ELSE [ok |-> FALSE, index |-> first - 1, byte |-> string[first],
              v |-> <<>>]

\* to_cash_addr's body for the payload bytes [version] ++ addr_bytes
EncodePayload(prefix, bytes) ==
    LET payload == ConvertBits(bytes, 8, 5, TRUE).v
        checksum == CalculateChecksum(prefix, payload)
    IN  prefix \o <<COLON>> \o B32Encode(payload \o checksum)

ToCashAddr(prefix, addr_type, addr_bytes) ==
    EncodePayload(prefix, <<AddrTypeByte(addr_type)>> \o addr_bytes)

ToAsciiLowercase(s) ==
    [i \in 1..Len(s) |-> IF s[i] \in 65..90 THEN s[i] + 32 ELSE s[i]]

ToAsciiUppercase(s) ==
    [i \in 1..Len(s) |-> IF s[i] \in 97..122 THEN s[i] - 32 ELSE s[i]]

\* str::find(":"): the 1-based position of the first ':', 0 for None
FindColon(s) ==
    LET at == {i \in 1..Len(s) : s[i] = COLON}
    IN  IF at = {} THEN 0 ELSE CHOOSE i \in at : \A j \in at : i <= j

AddrResult(kind, hash, addr_type, prefix, index, byte) ==
    [kind |-> kind, hash |-> hash, addr_type |-> addr_type,
     prefix |-> prefix, index |-> index, byte |-> byte]

AddrOk(hash, addr_type, prefix) ==
    AddrResult("Ok", hash, addr_type, prefix, 0, 0)

AddrErr(kind, index, byte) == AddrResult(kind, <<>>, "", <<>>, index, byte)

\* the abort of an unwrap, a slice out of range or copy_from_slice
AddrPanic == AddrResult("panic", <<>>, "", <<>>, 0, 0)

\* from_cash_addr, lines 112-117: (prefix, payload_base32)
SplitAddr(s) ==
    LET pos == FindColon(s)
    IN  IF pos # 0
        THEN [prefix |-> SubSeq(s, 1, pos - 1),
              payload_base32 |-> SubSeq(s, pos + 1, Len(s))]
        ELSE [prefix |-> s, payload_base32 |-> DEFAULT_PREFIX]

FromCashAddr(addr_string) ==
    LET s == ToAsciiLowercase(addr_string)
        split == SplitAddr(s)
        dec == B32Decode(split.payload_base32)
        converted == ConvertBits(dec.v, 5, 8, TRUE)
        n == Len(converted.v)
    IN  IF ~dec.ok THEN AddrErr("InvalidBase32Letter", dec.index, dec.byte)
        ELSE IF ~VerifyChecksum(split.prefix, dec.v)
        THEN AddrErr("InvalidChecksum", 0, 0)
        ELSE IF ~converted.some THEN AddrPanic
        \* &converted[1 .. converted.len()-6] copied into [0; 20]
        ELSE IF n < 6 \/ n - 6 < 1 \/ n - 6 - 1 # 20 THEN AddrPanic
        ELSE IF converted.v[1] = 0
        THEN AddrOk(SubSeq(converted.v, 2, n - 6), "P2PKH", split.prefix)
        ELSE IF converted.v[1] = 8
        THEN AddrOk(SubSeq(converted.v, 2, n - 6), "P2SH", split.prefix)
        ELSE AddrErr("InvalidAddressType", 0, converted.v[1])

Address(addr_type, bytes, cash_addr, prefix) ==
    [addr_type |-> addr_type, bytes |-> bytes, cash_addr |-> cash_addr,
     prefix |-> prefix]

AddressFromBytesPrefix(prefix, addr_type, bytes) ==
    Address(addr_type, bytes, ToCashAddr(prefix, addr_type, bytes), prefix)

AddressFromBytes(addr_type, bytes) ==
    Address(addr_type, bytes, ToCashAddr(DEFAULT_PREFIX, addr_type, bytes),
            DEFAULT_PREFIX)

\* Address::from_cash_addr: the string is stored as it was given
AddressFromCashAddr(cash_addr) ==
    LET r == FromCashAddr(cash_addr)
    IN  IF r.kind = "Ok"
        THEN [kind |-> "Ok",
              value |-> Address(r.addr_type, r.hash, cash_addr, r.prefix)]
        ELSE [kind |-> r.kind, value |-> Address("", <<>>, <<>>, <<>>)]


(***************************************************************************)
(* Byte strings of scripts, transactions and preimages.                    *)
(*                                                                         *)
(* A byte string is a sequence of elements.  A byte b is the element       *)
(* <<b>>.  The output of a hash function, a public key and a signature     *)
(* are single elements <<tag, payload>> that stand for their 32, 20, 33    *)
(* or 71 bytes: hashes are collision free, and a signature verifies only   *)
(* for the key and the message it was made for.                            *)
(***************************************************************************)
Bytes(ints) == [i \in 1..Len(ints) |-> <<ints[i]>>]

Tag == [sha256 |-> 256, hash160 |-> 257, signature |-> 258, pubkey |-> 259]

\* the number of bytes an element stands for
Width(e) ==
    IF Len(e) = 1 THEN 1
    ELSE IF e[1] = Tag.sha256 THEN 32
    ELSE IF e[1] = Tag.hash160 THEN 20
    ELSE IF e[1] = Tag.pubkey THEN 33
    ELSE 71

RECURSIVE SumWidths(_, _)
SumWidths(s, at) ==
    IF at = {} THEN 0
    ELSE LET i == CHOOSE j \in at : TRUE
         IN  Width(s[i]) - 1 + SumWidths(s, at \ {i})

\* vec.len()
BLen(s) == Len(s) + SumWidths(s, {i \in 1..Len(s) : Len(s[i]) > 1})

Reverse(s) == [i \in 1..Len(s) |-> s[Len(s) + 1 - i]]

(***************************************************************************)
(* hash.rs                                                                 *)
(***************************************************************************)
SingleSha256(data) == << <<Tag.sha256, data>> >>

DoubleSha256(data) == SingleSha256(SingleSha256(data))

Hash160(data) == << <<Tag.hash160, data>> >>

(***************************************************************************)
(* secp256k1, as the code uses it.  A secret key is a string.              *)
(***************************************************************************)
\* PublicKey::from_secret_key(..).serialize()
PubKeySerialize(key) == << <<Tag.pubkey, key>> >>

\* secp.sign(&message, &key).serialize_der()
SignDer(message, key) == << <<Tag.signature, <<key, message>>>> >>

\* PublicKey::from_slice succeeds
IsPubKey(item) == Len(item) = 1 /\ Len(item[1]) = 2 /\ item[1][1] = Tag.pubkey

\* Signature::from_der succeeds
IsSignature(item) ==
    Len(item) = 1 /\ Len(item[1]) = 2 /\ item[1][1] = Tag.signature

\* curve.verify(&msg, &sig, &pub_key) succeeds
Verify(message, sig, pub_key) ==
    sig[1][2] = <<pub_key[1][2], message>>

(***************************************************************************)
(* serialize.rs.  Unsigned integers wider than TLC's are tuples of 16-bit  *)
(* limbs, most significant first: four for a u64, two for a u32.           *)
(***************************************************************************)
\* `n as u64`, for n below 2^31
U64Of(n) == <<0, 0, n \div 65536, n % 65536>>

\* `n as u32`, for n below 2^31
U32Of(n) == <<n \div 65536, n % 65536>>

RECURSIVE LimbsLE(_)
\* write_u16/u32/u64::<LittleEndian>
LimbsLE(x) ==
    IF x = <<>> THEN <<>>
    ELSE LET last == x[Len(x)]
         IN  << <<last % 256>>, <<last \div 256>> >>
                 \o LimbsLE(SubSeq(x, 1, Len(x) - 1))

RECURSIVE LimbsBE(_)
\* write_u32/u64::<BigEndian>
LimbsBE(x) ==
    IF x = <<>> THEN <<>>
    ELSE << <<x[1] \div 256>>, <<x[1] % 256>> >> \o LimbsBE(Tail(x))

\* write_i32::<LittleEndian>: two's complement
WriteI32LE(v) ==
    << <<v % 256>>, <<(v \div 256) % 256>>, <<(v \div 65536) % 256>>,
       <<(v \div 16777216) % 256>> >>

\* write_var_int with 0xfd in the one-byte arm
WriteVarIntWideFirstArm(number) ==
    IF number[1] = 0 /\ number[2] = 0 /\ number[3] = 0 /\ number[4] <= 253
    THEN << <<number[4]>> >>
    ELSE IF number[1] = 0 /\ number[2] = 0 /\ number[3] = 0
    THEN << <<253>> >> \o LimbsLE(<<number[4]>>)
    ELSE IF number[1] = 0 /\ number[2] = 0
    THEN << <<254>> >> \o LimbsLE(<<number[3], number[4]>>)
    ELSE << <<255>> >> \o LimbsLE(number)

\* write_var_int(write, number), number a u64
WriteVarInt(number) ==
    IF number[1] = 0 /\ number[2] = 0 /\ number[3] = 0 /\ number[4] <= 252
    THEN << <<number[4]>> >>
    ELSE IF number[1] = 0 /\ number[2] = 0 /\ number[3] = 0
    THEN << <<253>> >> \o LimbsLE(<<number[4]>>)
    ELSE IF number[1] = 0 /\ number[2] = 0
    THEN << <<254>> >> \o LimbsLE(<<number[3], number[4]>>)
    ELSE << <<255>> >> \o LimbsLE(number)

\* read_u16/u32/u64::<LittleEndian> on the first 2 * limbs bytes, `as u64`
ReadLE(bytes, limbs) ==
    [i \in 1..4 |->
        IF i <= 4 - limbs THEN 0
        ELSE bytes[2 * (4 - i) + 1][1] + 256 * bytes[2 * (4 - i) + 2][1]]

\* read_var_int(read): the value, or the io::Error of a read past the end
ReadVarInt(bytes) ==
    IF Len(bytes) = 0 THEN [kind |-> "Err"]
    ELSE LET first_byte == bytes[1][1]
             limbs == IF first_byte = 253 THEN 1
                      ELSE IF first_byte = 254 THEN 2 ELSE 4
         IN  IF first_byte <= 252
             THEN [kind |-> "Ok", value |-> <<0, 0, 0, first_byte>>]
             ELSE IF Len(bytes) < 1 + 2 * limbs THEN [kind |-> "Err"]
             ELSE [kind |-> "Ok", value |-> ReadLE(Tail(bytes), limbs)]

(***************************************************************************)
(* script.rs                                                               *)
(***************************************************************************)
Push(vec) == [kind |-> "Push", data |-> vec, code |-> ""]

Code(c) == [kind |-> "Code", data |-> <<>>, code |-> c]

\* OpCodeType's discriminants; FirstUndefinedOpCode has no explicit value and
\* takes the one after OpCheckDataSigVerify
OpCodeByte ==
    [Op0 |-> 0, OpPushData1 |-> 76, OpPushData2 |-> 77, OpPushData4 |-> 78,
     Op1Negate |-> 79, OpReserved |-> 80, Op1 |-> 81, Op2 |-> 82, Op3 |-> 83,
     Op4 |-> 84, Op5 |-> 85, Op6 |-> 86, Op7 |-> 87, Op8 |-> 88, Op9 |-> 89,
     Op10 |-> 90, Op11 |-> 91, Op12 |-> 92, Op13 |-> 93, Op14 |-> 94,
     Op15 |-> 95, Op16 |-> 96, OpNop |-> 97, OpVer |-> 98, OpIf |-> 99,
     OpNotIf |-> 100, OpVerIf |-> 101, OpVerNotIf |-> 102, OpElse |-> 103,
     OpEndIf |-> 104, OpVerify |-> 105, OpReturn |-> 106,
     OpToAltStack |-> 107, OpFromAltStack |-> 108, Op2Drop |-> 109,
     Op2Dup |-> 110, Op3Dup |-> 111, Op2Over |-> 112, Op2Rot |-> 113,
     Op2Swap |-> 114, OpIfDup |-> 115, OpDepth |-> 116, OpDrop |-> 117,
     OpDup |-> 118, OpNip |-> 119, OpOver |-> 120, OpPick |-> 121,
     OpRoll |-> 122, OpRot |-> 123, OpSwap |-> 124, OpTuck |-> 125,
     OpCat |-> 126, OpSplit |-> 127, OpNum2Bin |-> 128, OpBin2Num |-> 129,
     OpSize |-> 130, OpInvert |-> 131, OpAnd |-> 132, OpOr |-> 133,
     OpXor |-> 134, OpEqual |-> 135, OpEqualVerify |-> 136,
     OpReserved1 |-> 137, OpReserved2 |-> 138, Op1Add |-> 139,
     Op1Sub |-> 140, Op2Mul |-> 141, Op2Div |-> 142, OpNegate |-> 143,
     OpAbs |-> 144, OpNot |-> 145, Op0NotEqual |-> 146, OpAdd |-> 147,
     OpSub |-> 148, OpMul |-> 149, OpDiv |-> 150, OpMod |-> 151,
     OpLShift |-> 152, OpRShift |-> 153, OpBoolAnd |-> 154, OpBoolOr |-> 155,
     OpNumEqual |-> 156, OpNumEqualVerify |-> 157, OpNumNotEqual |-> 158,
     OpLessThan |-> 159, OpGreaterThan |-> 160, OpLessThanOrEqual |-> 161,
     OpGreaterThanOrEqual |-> 162, OpMin |-> 163, OpMax |-> 164,
     OpWithin |-> 165, OpRipemd160 |-> 166, OpSha1 |-> 167, OpSha256 |-> 168,
     OpHash160 |-> 169, OpHash256 |-> 170, OpCodeSeparator |-> 171,
     OpCheckSig |-> 172, OpCheckSigVerify |-> 173, OpCheckMultiSig |-> 174,
     OpCheckMultiSigVerify |-> 175, OpNop1 |-> 176,
     OpCheckLockTimeVerify |-> 177, OpCheckSequenceVerify |-> 178,
     OpNop4 |-> 179, OpNop5 |-> 180, OpNop6 |-> 181, OpNop7 |-> 182,
     OpNop8 |-> 183, OpNop9 |-> 184, OpNop10 |-> 185, OpCheckDataSig |-> 186,
     OpCheckDataSigVerify |-> 187, FirstUndefinedOpCode |-> 188,
     OpPrefixBegin |-> 240, OpPrefixEnd |-> 247, OpSmallInteger |-> 250,
     OpPubKeys |-> 251, OpPubKeyHash |-> 253, OpPubkey |-> 254,
     OpInvalidOpcode |-> 255]

\* Op::code
OpCode(op) ==
    IF op.kind = "Push"
    THEN IF BLen(op.data) <= 75 THEN BLen(op.data)
         ELSE IF BLen(op.data) <= 255 THEN 76
         ELSE IF BLen(op.data) <= 65535 THEN 77
         ELSE 78
    ELSE OpCodeByte[op.code]

\* Op::write_to_stream: the bytes written
OpWriteToStream(op, is_minimal_push) ==
    << <<OpCode(op)>> >> \o
    IF op.kind = "Push"
    THEN IF BLen(op.data) = 1 /\ is_minimal_push
            /\ op.data[1][1] > 0 /\ op.data[1][1] <= 16
         THEN << <<op.data[1][1] + 80>> >>
         ELSE (IF BLen(op.data) <= 75 THEN <<>>
               ELSE IF BLen(op.data) <= 255
               THEN << <<BLen(op.data)>> >>
               ELSE IF BLen(op.data) <= 65535
               THEN LimbsLE(<<BLen(op.data)>>)
               ELSE LimbsLE(U32Of(BLen(op.data))))
              \o op.data
    ELSE <<>>

\* Script::new
ScriptNew(ops) == [ops |-> ops, is_minimal_push |-> TRUE]

\* Script::new_non_minimal_push
ScriptNewNonMinimalPush(ops) == [ops |-> ops, is_minimal_push |-> FALSE]

RECURSIVE WriteOps(_, _, _)
WriteOps(ops, i, is_minimal_push) ==
    IF i > Len(ops) THEN <<>>
    ELSE OpWriteToStream(ops[i], is_minimal_push)
             \o WriteOps(ops, i + 1, is_minimal_push)

\* Script::to_vec
ScriptToVec(script) == WriteOps(script.ops, 1, script.is_minimal_push)

\* Script::add_op
ScriptAddOp(script, op) == [script EXCEPT !.ops = Append(@, op)]

RECURSIVE FromSerializedLoop(_, _, _)

\* num::FromPrimitive::from_u8 for OpCodeType, with the fallback of
\* Script::from_serialized
OpCodeTypeFromU8(code) ==
    IF \E name \in DOMAIN OpCodeByte : OpCodeByte[name] = code
    THEN CHOOSE name \in DOMAIN OpCodeByte : OpCodeByte[name] = code
    ELSE "OpInvalidOpcode"

\* Script::from_serialized, one round of the loop on data[idx], idx counting
\* from 0 as in the source: the op pushed and the next idx; an index or a
\* slice beyond the end of data panics
FromSerializedArm(data, idx) ==
    IF data[idx + 1][1] <= 75
    THEN LET n_bytes == data[idx + 1][1]
         IN  IF idx + 1 + n_bytes > Len(data) THEN [kind |-> "panic"]
             ELSE [kind |-> "Ok", idx |-> idx + n_bytes + 1,
                   op |-> Push(SubSeq(data, idx + 2, idx + 1 + n_bytes))]
    ELSE IF data[idx + 1][1] = 76
    THEN IF idx + 1 >= Len(data) THEN [kind |-> "panic"]
         ELSE LET n_bytes == data[idx + 2][1]
              IN  IF idx + 1 + n_bytes > Len(data) THEN [kind |-> "panic"]
                  ELSE [kind |-> "Ok", idx |-> idx + n_bytes + 1,
                        op |-> Push(SubSeq(data, idx + 2, idx + 1 + n_bytes))]
    ELSE [kind |-> "Ok", idx |-> idx + 1,
          op |-> Code(OpCodeTypeFromU8(data[idx + 1][1]))]

\* Script::from_serialized, one round of the loop from the state at, which
\* is left alone once the loop has ended
FromSerializedRound(data, at) ==
    IF at.kind # "loop" THEN at
    ELSE IF at.idx >= Len(data) THEN [at EXCEPT !.kind = "Ok"]
    ELSE LET arm == FromSerializedArm(data, at.idx)
         IN  IF arm.kind = "panic" THEN [at EXCEPT !.kind = "panic"]
             ELSE [kind |-> "loop", idx |-> arm.idx,
                   ops |-> Append(at.ops, arm.op)]

\* Script::from_serialized, n rounds of the loop (halving n, and
\* testing half so that TLC evaluates it first, keeps the evaluation shallow)
FromSerializedLoop(data, at, n) ==
    IF n <= 1 THEN FromSerializedRound(data, at)
    ELSE LET half == FromSerializedLoop(data, at, n \div 2)
         IN  IF half.idx >= 0
             THEN FromSerializedLoop(data, half, n - (n \div 2))
             ELSE half

\* Script::from_serialized: every round but the last moves idx forward, so
\* the loop ends within Len(data) + 1 rounds
FromSerialized(data) ==
    LET parsed == FromSerializedLoop(data,
                      [kind |-> "loop", idx |-> 0, ops |-> <<>>], Len(data) + 1)
    IN  [kind |-> parsed.kind, ops |-> parsed.ops, is_minimal_push |-> TRUE]

(***************************************************************************)
(* tx.rs                                                                   *)
(***************************************************************************)
TxOutpoint(tx_hash, output_idx) ==
    [tx_hash |-> tx_hash, output_idx |-> output_idx]

TxInputNew(outpoint, script, sequence) ==
    [outpoint |-> outpoint, script |-> script, sequence |-> sequence]

TxOutputNew(value, script) == [value |-> value, script |-> script]

TxNew(version, inputs, outputs, lock_time) ==
    [version |-> version, inputs |-> inputs, outputs |-> outputs,
     lock_time |-> lock_time]

\* write_var_int(len) then the bytes
WriteVarStr(bytes) == WriteVarInt(U64Of(BLen(bytes))) \o bytes

\* TxInput::write_to_stream
TxInputWriteToStream(input) ==
    input.outpoint.tx_hash \o LimbsLE(input.outpoint.output_idx)
        \o WriteVarStr(ScriptToVec(input.script)) \o LimbsLE(input.sequence)

\* TxOutput::write_to_stream
TxOutputWriteToStream(output) ==
    LimbsLE(U64Of(output.value)) \o WriteVarStr(ScriptToVec(output.script))

RECURSIVE WriteOutputs(_, _)
\* the outputs from index i on, each written with TxOutput::write_to_stream
WriteOutputs(outputs, i) ==
    IF i > Len(outputs) THEN <<>>
    ELSE TxOutputWriteToStream(outputs[i]) \o WriteOutputs(outputs, i + 1)

RECURSIVE WriteInputs(_, _)
WriteInputs(inputs, i) ==
    IF i > Len(inputs) THEN <<>>
    ELSE TxInputWriteToStream(inputs[i]) \o WriteInputs(inputs, i + 1)

\* Tx::write_to_stream
TxWriteToStream(tx) ==
    WriteI32LE(tx.version)
        \o WriteVarInt(U64Of(Len(tx.inputs))) \o WriteInputs(tx.inputs, 1)
        \o WriteVarInt(U64Of(Len(tx.outputs))) \o WriteOutputs(tx.outputs, 1)
        \o LimbsLE(tx.lock_time)

(***************************************************************************)
(* outputs.rs.  An output descriptor is a record; its `address` field is   *)
(* the Address's bytes().                                                  *)
(***************************************************************************)
P2PKHOutput(value, addr_bytes) ==
    [type |-> "P2PKH", value |-> value, address |-> addr_bytes]

P2SHOutput(output) == [type |-> "P2SH", output |-> output]

SLPSendOutput(token_type, token_id, output_quantities) ==
    [type |-> "SLPSend", token_type |-> token_type, token_id |-> token_id,
     output_quantities |-> output_quantities]

EnforceOutputsOutput(value, cancel_address, enforced_outputs, is_cancel) ==
    [type |-> "EnforceOutputs", value |-> value,
     cancel_address |-> cancel_address,
     enforced_outputs |-> enforced_outputs, is_cancel |-> is_cancel]

\* OpReturnOutput
OpReturnOutput(pushes, is_minimal_push) ==
    [type |-> "OpReturn", pushes |-> pushes, is_minimal_push |-> is_minimal_push]

\* OpReturnOutput::script
OpReturnScript(o) ==
    [ops |-> <<Code("OpReturn")>> \o [i \in 1..Len(o.pushes) |-> Push(o.pushes[i])],
     is_minimal_push |-> o.is_minimal_push]

RECURSIVE OutputValue(_)
\* Output::value
OutputValue(o) ==
    IF o.type = "P2SH" THEN OutputValue(o.output)
    ELSE IF o.type = "SLPSend" \/ o.type = "OpReturn" THEN 0
    ELSE o.value

\* P2PKHOutput::script
P2PKHScript(o) ==
    ScriptNew(<<Code("OpDup"), Code("OpHash160"), Push(o.address),
                Code("OpEqualVerify"), Code("OpCheckSig")>>)

\* SLPSendOutput::script
SLPSendScript(o) ==
    ScriptNewNonMinimalPush(
        <<Code("OpReturn"), Push(Bytes(<<83, 76, 80, 0>>)),
          Push(Bytes(<<o.token_type>>)), Push(Bytes(<<83, 69, 78, 68>>)),
          Push(o.token_id)>>
        \o [i \in 1..Len(o.output_quantities) |->
                Push(LimbsBE(U64Of(o.output_quantities[i])))])

\* a variant without the first OpSwap
EnforceOutputsOpsNoSwap(outputs_pre, cancel_bytes) ==
    <<Code("OpIf"),
      Push(outputs_pre), Code("OpCat"), Code("OpHash256"),
      Code("OpCat"), Code("OpSwap"), Code("OpCat"), Code("OpSha256"),
      Code("Op3Dup"), Code("OpDrop"), Push(Bytes(<<65>>)), Code("OpCat"),
      Code("OpSwap"), Code("OpCheckSigVerify"), Code("OpRot"),
      Code("OpCheckDataSig"),
      Code("OpElse"),
      Code("OpDup"), Code("OpHash160"), Push(cancel_bytes),
      Code("OpEqualVerify"), Code("OpCheckSig"),
      Code("OpEndIf")>>

\* a variant that embeds the same cancel hash in every script
EnforceOutputsOpsFixedCancel(outputs_pre, cancel_bytes) ==
    <<Code("OpIf"),
      Push(outputs_pre), Code("OpSwap"), Code("OpCat"), Code("OpHash256"),
      Code("OpCat"), Code("OpSwap"), Code("OpCat"), Code("OpSha256"),
      Code("Op3Dup"), Code("OpDrop"), Push(Bytes(<<65>>)), Code("OpCat"),
      Code("OpSwap"), Code("OpCheckSigVerify"), Code("OpRot"),
      Code("OpCheckDataSig"),
      Code("OpElse"),
      Code("OpDup"), Code("OpHash160"), Push(Bytes([i \in 1..20 |-> 0])),
      Code("OpEqualVerify"), Code("OpCheckSig"),
      Code("OpEndIf")>>

\* the ops of EnforceOutputsOutput::script, around the two values it embeds
EnforceOutputsOps(outputs_pre, cancel_bytes) ==
    <<Code("OpIf"),
      Push(outputs_pre), Code("OpSwap"), Code("OpCat"), Code("OpHash256"),
      Code("OpCat"), Code("OpSwap"), Code("OpCat"), Code("OpSha256"),
      Code("Op3Dup"), Code("OpDrop"), Push(Bytes(<<65>>)), Code("OpCat"),
      Code("OpSwap"), Code("OpCheckSigVerify"), Code("OpRot"),
      Code("OpCheckDataSig"),
      Code("OpElse"),
      Code("OpDup"), Code("OpHash160"), Push(cancel_bytes),
      Code("OpEqualVerify"), Code("OpCheckSig"),
      Code("OpEndIf")>>

RECURSIVE OutputScript(_)
RECURSIVE EnforcedOutputsPre(_, _)
\* the enforced outputs from index i on, as TxOutputs written to outputs_pre
EnforcedOutputsPre(enforced_outputs, i) ==
    IF i > Len(enforced_outputs) THEN <<>>
    ELSE TxOutputWriteToStream(
             TxOutputNew(OutputValue(enforced_outputs[i]),
                         OutputScript(enforced_outputs[i])))
             \o EnforcedOutputsPre(enforced_outputs, i + 1)

\* Output::script
OutputScript(o) ==
    IF o.type = "P2PKH" THEN P2PKHScript(o)
    ELSE IF o.type = "SLPSend" THEN SLPSendScript(o)
    ELSE IF o.type = "OpReturn" THEN OpReturnScript(o)
    ELSE IF o.type = "P2SH"
    THEN ScriptNew(<<Code("OpHash160"),
                     Push(Hash160(ScriptToVec(OutputScript(o.output)))),
                     Code("OpEqual")>>)
    ELSE ScriptNew(EnforceOutputsOps(
             EnforcedOutputsPre(o.enforced_outputs, 1), o.cancel_address))

\* Output::script_code panics
OutputScriptCodePanics(o) == o.type = "SLPSend"

\* Output::script_code
OutputScriptCode(o) ==
    IF o.type = "P2SH" THEN OutputScript(o.output) ELSE OutputScript(o)

(***************************************************************************)
(* incomplete_tx.rs: PreImage                                              *)
(***************************************************************************)
PreImageWriteFlags(version, hash_prevouts, hash_sequence, outpoint, script_code, value, sequence, hash_outputs, lock_time, sighash_type) ==
    [version |-> version, hash_prevouts |-> hash_prevouts,
     hash_sequence |-> hash_sequence, outpoint |-> outpoint,
     script_code |-> script_code, value |-> value, sequence |-> sequence,
     hash_outputs |-> hash_outputs, lock_time |-> lock_time,
     sighash_type |-> sighash_type]

\* a variant that writes the sequence after hash_outputs
WriteToStreamFlagsLateSequence(p, flags) ==
    (IF flags.version THEN WriteI32LE(p.version) ELSE <<>>)
    \o (IF flags.hash_prevouts THEN p.hash_prevouts ELSE <<>>)
    \o (IF flags.hash_sequence THEN p.hash_sequence ELSE <<>>)
    \o (IF flags.outpoint
        THEN p.outpoint.tx_hash \o LimbsLE(p.outpoint.output_idx) ELSE <<>>)
    \o (IF flags.script_code
        THEN WriteVarStr(ScriptToVec(p.script_code)) ELSE <<>>)
    \o (IF flags.value THEN LimbsLE(U64Of(p.value)) ELSE <<>>)
    \o (IF flags.hash_outputs THEN p.hash_outputs ELSE <<>>)
    \o (IF flags.sequence THEN LimbsLE(p.sequence) ELSE <<>>)
    \o (IF flags.lock_time THEN LimbsLE(p.lock_time) ELSE <<>>)
    \o (IF flags.sighash_type THEN LimbsLE(p.sighash_type) ELSE <<>>)

\* PreImage::write_to_stream_flags: the bytes written
WriteToStreamFlags(p, flags) ==
    (IF flags.version THEN WriteI32LE(p.version) ELSE <<>>)
    \o (IF flags.hash_prevouts THEN p.hash_prevouts ELSE <<>>)
    \o (IF flags.hash_sequence THEN p.hash_sequence ELSE <<>>)
    \o (IF flags.outpoint
        THEN p.outpoint.tx_hash \o LimbsLE(p.outpoint.output_idx) ELSE <<>>)
    \o (IF flags.script_code
        THEN WriteVarStr(ScriptToVec(p.script_code)) ELSE <<>>)
    \o (IF flags.value THEN LimbsLE(U64Of(p.value)) ELSE <<>>)
    \o (IF flags.sequence THEN LimbsLE(p.sequence) ELSE <<>>)
    \o (IF flags.hash_outputs THEN p.hash_outputs ELSE <<>>)
    \o (IF flags.lock_time THEN LimbsLE(p.lock_time) ELSE <<>>)
    \o (IF flags.sighash_type THEN LimbsLE(p.sighash_type) ELSE <<>>)

\* PreImage::write_to_stream
PreImageWriteToStream(p) ==
    WriteToStreamFlags(p, PreImageWriteFlags(TRUE, TRUE, TRUE, TRUE, TRUE,
                                             TRUE, TRUE, TRUE, TRUE, TRUE))

\* the flags of pre_image_begin in EnforceOutputsOutput::sig_script
BeginFlags ==
    PreImageWriteFlags(TRUE, TRUE, TRUE, TRUE, TRUE, TRUE, TRUE,
                       FALSE, FALSE, FALSE)

\* the flags of pre_image_end in EnforceOutputsOutput::sig_script
EndFlags ==
    PreImageWriteFlags(FALSE, FALSE, FALSE, FALSE, FALSE, FALSE, FALSE,
                       FALSE, TRUE, TRUE)

(***************************************************************************)
(* outputs.rs: sig_script                                                  *)
(***************************************************************************)
RemoveLast(vec) == SubSeq(vec, 1, Len(vec) - 1)

\* a variant that pushes the signature before the public key
EnforceOutputsBuySigScriptSigFirst(o, serialized_sig, pub_key, pre_image, outputs) ==
    ScriptNew(<<Push(RemoveLast(serialized_sig)),
                Push(pub_key),
                Push(WriteToStreamFlags(pre_image, EndFlags)),
                Push(WriteToStreamFlags(pre_image, BeginFlags)),
                Push(WriteOutputs(outputs, Len(o.enforced_outputs) + 1)),
                Push(Bytes(<<1>>))>>)

\* the buy arm of EnforceOutputsOutput::sig_script
EnforceOutputsBuySigScript(o, serialized_sig, pub_key, pre_image, outputs) ==
    ScriptNew(<<Push(pub_key),
                Push(RemoveLast(serialized_sig)),
                Push(WriteToStreamFlags(pre_image, EndFlags)),
                Push(WriteToStreamFlags(pre_image, BeginFlags)),
                Push(WriteOutputs(outputs, Len(o.enforced_outputs) + 1)),
                Push(Bytes(<<1>>))>>)

RECURSIVE OutputSigScriptPanics(_, _)
\* Output::sig_script panics
OutputSigScriptPanics(o, outputs) ==
    IF o.type = "P2SH" THEN OutputSigScriptPanics(o.output, outputs)
    ELSE IF o.type = "SLPSend" THEN TRUE
    ELSE IF o.type = "EnforceOutputs"
    THEN \/ o.is_cancel = "None"
         \/ o.is_cancel = "false" /\ Len(o.enforced_outputs) > Len(outputs)
    ELSE FALSE

RECURSIVE OutputSigScript(_, _, _, _, _)
\* Output::sig_script
OutputSigScript(o, serialized_sig, pub_key, pre_image, outputs) ==
    IF o.type = "P2SH"
    THEN ScriptAddOp(
             OutputSigScript(o.output, serialized_sig, pub_key, pre_image,
                             outputs),
             Push(ScriptToVec(OutputScript(o.output))))
    ELSE IF o.type = "EnforceOutputs"
    THEN IF o.is_cancel = "true"
         THEN ScriptNew(<<Push(serialized_sig), Push(pub_key),
                          Push(Bytes(<<0>>))>>)
         ELSE EnforceOutputsBuySigScript(o, serialized_sig, pub_key,
                                         pre_image, outputs)
    ELSE ScriptNew(<<Push(serialized_sig), Push(pub_key)>>)

(***************************************************************************)
(* incomplete_tx.rs: IncompleteTx                                          *)
(***************************************************************************)
Utxo(outpoint, output, sequence, key) ==
    [outpoint |-> outpoint, output |-> output, sequence |-> sequence,
     key |-> key]

\* IncompleteTx::new_simple
NewSimple == [version |-> 1, inputs |-> <<>>, outputs |-> <<>>,
              lock_time |-> U32Of(0)]

\* IncompleteTx::add_utxo
AddUtxo(tx_build, utxo) == [tx_build EXCEPT !.inputs = Append(@, utxo)]

\* IncompleteTx::add_output
AddOutput(tx_build, output) ==
    [tx_build EXCEPT
        !.outputs = Append(@, TxOutputNew(OutputValue(output),
                                          OutputScript(output)))]

\* IncompleteTx::replace_output, idx counted from 0
ReplaceOutput(tx_build, idx, output) ==
    [tx_build EXCEPT
        !.outputs[idx + 1] = TxOutputNew(OutputValue(output),
                                         OutputScript(output))]

\* a variant that removes the last output, whatever idx is
RemoveOutputLast(tx_build, idx) ==
    [tx_build EXCEPT !.outputs = SubSeq(@, 1, Len(@) - 1)]

\* IncompleteTx::remove_output, idx counted from 0
RemoveOutput(tx_build, idx) ==
    [tx_build EXCEPT
        !.outputs = SubSeq(@, 1, idx) \o SubSeq(@, idx + 2, Len(@))]

RECURSIVE OutpointsSerialized(_, _)
OutpointsSerialized(inputs, i) ==
    IF i > Len(inputs) THEN <<>>
    ELSE inputs[i].outpoint.tx_hash \o LimbsLE(inputs[i].outpoint.output_idx)
             \o OutpointsSerialized(inputs, i + 1)

RECURSIVE SequenceSerialized(_, _)
SequenceSerialized(inputs, i) ==
    IF i > Len(inputs) THEN <<>>
    ELSE LimbsLE(inputs[i].sequence) \o SequenceSerialized(inputs, i + 1)

\* a variant that gives every preimage the first input's outpoint
PreImagesFirstOutpoint(tx_build, sighash_type) ==
    LET hash_prevouts == DoubleSha256(OutpointsSerialized(tx_build.inputs, 1))
        hash_sequence == DoubleSha256(SequenceSerialized(tx_build.inputs, 1))
        hash_outputs == DoubleSha256(WriteOutputs(tx_build.outputs, 1))
    IN  [i \in 1..Len(tx_build.inputs) |->
            [version |-> tx_build.version,
             hash_prevouts |-> hash_prevouts,
             hash_sequence |-> hash_sequence,
             outpoint |-> tx_build.inputs[1].outpoint,
             script_code |-> OutputScriptCode(tx_build.inputs[i].output),
             value |-> OutputValue(tx_build.inputs[i].output),
             sequence |-> tx_build.inputs[i].sequence,
             hash_outputs |-> hash_outputs,
             lock_time |-> tx_build.lock_time,
             sighash_type |-> sighash_type]]

\* IncompleteTx::pre_images
PreImages(tx_build, sighash_type) ==
    LET hash_prevouts == DoubleSha256(OutpointsSerialized(tx_build.inputs, 1))
        hash_sequence == DoubleSha256(SequenceSerialized(tx_build.inputs, 1))
        hash_outputs == DoubleSha256(WriteOutputs(tx_build.outputs, 1))
    IN  [i \in 1..Len(tx_build.inputs) |->
            [version |-> tx_build.version,
             hash_prevouts |-> hash_prevouts,
             hash_sequence |-> hash_sequence,
             outpoint |-> tx_build.inputs[i].outpoint,
             script_code |-> OutputScriptCode(tx_build.inputs[i].output),
             value |-> OutputValue(tx_build.inputs[i].output),
             sequence |-> tx_build.inputs[i].sequence,
             hash_outputs |-> hash_outputs,
             lock_time |-> tx_build.lock_time,
             sighash_type |-> sighash_type]]

\* the sighash type of IncompleteTx::sign
SIGHASH_TYPE == 65

\* IncompleteTx::sign panics
SignPanics(tx_build) ==
    \E i \in 1..Len(tx_build.inputs) :
        \/ OutputScriptCodePanics(tx_build.inputs[i].output)
        \/ OutputSigScriptPanics(tx_build.inputs[i].output, tx_build.outputs)

\* the input that IncompleteTx::sign makes of one Utxo and its preimage
SignInput(input, pre_image, outputs) ==
    LET message == DoubleSha256(PreImageWriteToStream(pre_image))
        pub_key == PubKeySerialize(input.key)
        sig_ser == SignDer(message, input.key) \o Bytes(<<SIGHASH_TYPE % 256>>)
    IN  TxInputNew(input.outpoint,
                   OutputSigScript(input.output, sig_ser, pub_key, pre_image,
                                   outputs),
                   input.sequence)

\* a variant that signs over the outputs without the latest one
SignStaleOutputs(tx_build) ==
    LET stale == [tx_build EXCEPT !.outputs = SubSeq(@, 1, Len(@) - 1)]
        pre_images == PreImages(stale, U32Of(SIGHASH_TYPE))
    IN  TxNew(tx_build.version,
              [i \in 1..Len(tx_build.inputs) |->
                  SignInput(tx_build.inputs[i], pre_images[i],
                            stale.outputs)],
              tx_build.outputs, tx_build.lock_time)

\* a variant that signs every input over the first input's preimage
SignFirstPreImage(tx_build) ==
    LET pre_images == PreImages(tx_build, U32Of(SIGHASH_TYPE))
    IN  TxNew(tx_build.version,
              [i \in 1..Len(tx_build.inputs) |->
                  SignInput(tx_build.inputs[i], pre_images[1],
                            tx_build.outputs)],
              tx_build.outputs, tx_build.lock_time)

\* IncompleteTx::sign
Sign(tx_build) ==
    LET pre_images == PreImages(tx_build, U32Of(SIGHASH_TYPE))
    IN  TxNew(tx_build.version,
              [i \in 1..Len(tx_build.inputs) |->
                  SignInput(tx_build.inputs[i], pre_images[i],
                            tx_build.outputs)],
              tx_build.outputs, tx_build.lock_time)

(***************************************************************************)
(* script_interpreter.rs.  A step returns the stack and its result: "Ok",  *)
(* the ScriptError, or "panic" where the code indexes past the stack.      *)
(***************************************************************************)
Step(stack, result) == [stack |-> stack, result |-> result]

Top(stack) == stack[Len(stack)]

Pop(stack) == SubSeq(stack, 1, Len(stack) - 1)

\* the OpCheckSigVerify arm of run_op_code
RunCheckSigVerify(stack, pre_image_serialized) ==
    IF Len(stack) < 1 THEN Step(stack, "panic")
    ELSE IF ~IsPubKey(Top(stack)) THEN Step(Pop(stack), "InvalidPubKey")
    ELSE IF Len(stack) < 2 \/ Len(Top(Pop(stack))) = 0
    THEN Step(Pop(stack), "panic")
    ELSE LET pub_key == Top(stack)
             sig_ser == RemoveLast(Top(Pop(stack)))
             rest == Pop(Pop(stack))
         IN  IF ~IsSignature(sig_ser)
             THEN Step(rest, "InvalidSignatureFormat")
             ELSE IF ~Verify(DoubleSha256(pre_image_serialized), sig_ser,
                             pub_key)
             THEN Step(rest, "InvalidSignature")
             ELSE Step(rest, "Ok")

\* the OpCheckDataSig arm of run_op_code
RunCheckDataSig(stack) ==
    IF Len(stack) < 1 THEN Step(stack, "panic")
    ELSE IF ~IsPubKey(Top(stack)) THEN Step(Pop(stack), "InvalidPubKey")
    ELSE IF Len(stack) < 3 THEN Step(Pop(stack), "panic")
    ELSE LET pub_key == Top(stack)
             msg == SingleSha256(Top(Pop(stack)))
             sig == Top(Pop(Pop(stack)))
             rest == Pop(Pop(Pop(stack)))
         IN  IF ~IsSignature(sig)
             THEN Step(rest, "InvalidSignatureFormat")
             ELSE IF Verify(msg, sig, pub_key)
             THEN Step(Append(rest, Bytes(<<1>>)), "Ok")
             ELSE Step(Append(rest, Bytes(<<0>>)), "Ok")

\* ScriptInterpreter::run_op_code
RunOpCode(stack, pre_image_serialized, op_code) ==
    LET n == Len(stack)
    IN  CASE op_code = "OpSwap" ->
                IF n < 2 THEN Step(stack, "panic")
                ELSE Step(SubSeq(stack, 1, n - 2)
                              \o <<stack[n], stack[n - 1]>>, "Ok")
          [] op_code = "OpCat" ->
                IF n < 2 THEN Step(stack, "panic")
                ELSE Step(Append(SubSeq(stack, 1, n - 2),
                                 stack[n - 1] \o stack[n]), "Ok")
          [] op_code = "OpHash256" ->
                IF n < 1 THEN Step(stack, "panic")
                ELSE Step(Append(Pop(stack), DoubleSha256(stack[n])), "Ok")
          [] op_code = "OpSha256" ->
                IF n < 1 THEN Step(stack, "panic")
                ELSE Step(Append(Pop(stack), SingleSha256(stack[n])), "Ok")
          [] op_code = "Op3Dup" ->
                IF n < 3 THEN Step(stack, "panic")
                ELSE Step(stack \o SubSeq(stack, n - 2, n), "Ok")
          [] op_code = "OpDrop" ->
                IF n < 1 THEN Step(stack, "panic")
                ELSE Step(Pop(stack), "Ok")
          [] op_code = "OpCheckSigVerify" ->
                RunCheckSigVerify(stack, pre_image_serialized)
          [] op_code = "OpRot" ->
                IF n < 3 THEN Step(stack, "panic")
                ELSE Step(SubSeq(stack, 1, n - 3)
                              \o <<stack[n - 1], stack[n], stack[n - 2]>>,
                          "Ok")
          [] op_code = "OpCheckDataSig" -> RunCheckDataSig(stack)
          [] OTHER -> Step(stack, "NotImplemented")

\* ScriptInterpreter::run_op
RunOp(stack, pre_image_serialized, op) ==
    IF op.kind = "Push" THEN Step(Append(stack, op.data), "Ok")
    ELSE RunOpCode(stack, pre_image_serialized, op.code)

None == [kind |-> "None"]

\* the program has not been started
IdleMain ==
    /\ proc = None
    /\ disk = None
    /\ chain = None

\* nothing has been serialized, built or run
IdleTx ==
    /\ written = None
    /\ fragments = None
    /\ accept = None
    /\ spend = None
    /\ interp = None
    /\ call = None
    /\ builder = None
    /\ product = None

(***************************************************************************)
(* The address codec as a state machine: a string is produced (by          *)
(* to_cash_addr, possibly edited by the user afterwards) and handed to     *)
(* from_cash_addr or to a constructor of Address.                          *)
(***************************************************************************)
HashPattern(s, m) == [i \in 1..20 |-> (85 * s + m * i) % 256]

Hashes == {HashPattern(s, m) : s \in 0..MaxSeed, m \in 0..MaxStride}

FlipHashes == {HashPattern(s, 1) : s \in 0..MaxFlipSeed}

Prefixes == {DEFAULT_PREFIX, SLP_PREFIX}

NoOrigin == [prefix |-> <<>>, addr_type |-> "", hash |-> <<>>, edit |-> "idle"]

NoResult == AddrResult("none", <<>>, "", <<>>, 0, 0)

NoAddress == [kind |-> "none", via |-> "", value |-> Address("", <<>>, <<>>, <<>>)]

Origin(prefix, addr_type, hash, edit) ==
    [prefix |-> prefix, addr_type |-> addr_type, hash |-> hash, edit |-> edit]

InitAddr ==
    /\ text = <<>>
    /\ origin = NoOrigin
    /\ decoded = NoResult
    /\ address = NoAddress
    /\ IdleTx
    /\ IdleMain

Fresh == origin.edit = "idle" /\ address.kind = "none"

Unused == origin.edit = "encoded" /\ decoded.kind = "none" /\ address.kind = "none"

\* to_cash_addr(prefix, addr_type, &hash)
DoToCashAddr(prefix, addr_type, hash) ==
    /\ Fresh
    /\ text' = ToCashAddr(prefix, addr_type, hash)
    /\ origin' = Origin(prefix, addr_type, hash, "encoded")
    /\ UNCHANGED <<buildVars, decoded, address, txVars, restVars>>

\* the i-th base32 digit after ':' is replaced by another digit d
FlipDigit(i, d) ==
    LET at == FindColon(text) + i
    IN  /\ Unused
        /\ origin.hash \in FlipHashes
        /\ at <= Len(text)
        /\ text[at] # CHARSET[d + 1]
        /\ text' = [text EXCEPT ![at] = CHARSET[d + 1]]
        /\ origin' = [origin EXCEPT !.edit = "flip"]
        /\ UNCHANGED <<buildVars, decoded, address, txVars, restVars>>

\* the user leaves out "bitcoincash:"
DropPrefix ==
    /\ Unused
    /\ origin.prefix = DEFAULT_PREFIX
    /\ text' = SubSeq(text, FindColon(text) + 1, Len(text))
    /\ origin' = [origin EXCEPT !.edit = "noprefix"]
    /\ UNCHANGED <<buildVars, decoded, address, txVars, restVars>>

\* the user types the address in upper case (as QR codes carry it)
UpperCase ==
    /\ Unused
    /\ text' = ToAsciiUppercase(text)
    /\ origin' = [origin EXCEPT !.edit = "upper"]
    /\ UNCHANGED <<buildVars, decoded, address, txVars, restVars>>

\* only the first n digits after ':' are given
Truncate(n) ==
    /\ Unused
    /\ text' = SubSeq(text, 1, FindColon(text) + n)
    /\ origin' = [origin EXCEPT !.edit = "truncated"]
    /\ UNCHANGED <<buildVars, decoded, address, txVars, restVars>>

\* a string with a valid checksum over a version byte and n hash bytes, n # 20
OtherLength(prefix, addr_type, n) ==
    /\ Fresh
    /\ text' = EncodePayload(prefix,
                   <<AddrTypeByte(addr_type)>> \o [i \in 1..n |-> 17 * i])
    /\ origin' = Origin(prefix, addr_type, [i \in 1..n |-> 17 * i], "length")
    /\ UNCHANGED <<buildVars, decoded, address, txVars, restVars>>

\* from_cash_addr(&text)
DoFromCashAddr ==
    /\ origin.edit # "idle"
    /\ decoded.kind = "none"
    /\ address.kind = "none"
    /\ decoded' = FromCashAddr(text)
    /\ UNCHANGED <<buildVars, text, origin, address, txVars, restVars>>

\* Address::from_cash_addr(text)
NewFromCashAddr ==
    /\ origin.edit \in {"encoded", "upper"}
    /\ decoded.kind = "none"
    /\ address.kind = "none"
    /\ address' = [kind |-> AddressFromCashAddr(text).kind,
                   via |-> "from_cash_addr",
                   value |-> AddressFromCashAddr(text).value]
    /\ UNCHANGED <<buildVars, text, origin, decoded, txVars, restVars>>

\* Address::from_bytes(addr_type, hash)
NewFromBytes(addr_type, hash) ==
    /\ Fresh
    /\ address' = [kind |-> "Ok", via |-> "from_bytes",
                   value |-> AddressFromBytes(addr_type, hash)]
    /\ UNCHANGED <<buildVars, text, origin, decoded, txVars, restVars>>

\* Address::from_bytes_prefix(prefix, addr_type, hash)
NewFromBytesPrefix(prefix, addr_type, hash) ==
    /\ Fresh
    /\ address' = [kind |-> "Ok", via |-> "from_bytes_prefix",
                   value |-> AddressFromBytesPrefix(prefix, addr_type, hash)]
    /\ UNCHANGED <<buildVars, text, origin, decoded, txVars, restVars>>

\* Address::from_pub_key(prefix, pk), with hash = hash160(pk.serialize())
NewFromPubKey(prefix, hash) ==
    /\ Fresh
    /\ address' = [kind |-> "Ok", via |-> "from_pub_key",
                   value |-> AddressFromBytesPrefix(prefix, "P2PKH", hash)]
    /\ UNCHANGED <<buildVars, text, origin, decoded, txVars, restVars>>

NextAddr ==
    \/ \E p \in Prefixes, t \in AddressTypes, h \in Hashes : DoToCashAddr(p, t, h)
    \/ \E i \in 1..42, d \in 0..31 : FlipDigit(i, d)
    \/ DropPrefix
    \/ UpperCase
    \/ \E n \in 0..7 : Truncate(n)
    \/ \E p \in Prefixes, t \in AddressTypes, n \in 0..MaxOddLen :
           OtherLength(p, t, n)
    \/ DoFromCashAddr
    \/ NewFromCashAddr
    \/ \E t \in AddressTypes, h \in Hashes : NewFromBytes(t, h)
    \/ \E p \in Prefixes, t \in AddressTypes, h \in Hashes :
           NewFromBytesPrefix(p, t, h)
    \/ \E p \in Prefixes, h \in Hashes : NewFromPubKey(p, h)

SpecAddr == InitAddr /\ [][NextAddr]_vars


(***************************************************************************)
(* Claims about the address codec, checked under SpecAddr.                 *)
(***************************************************************************)

\* C4: decoding the string to_cash_addr(prefix, addr_type, hash) returns
\* Ok((hash, addr_type, prefix)), for both address types and both prefixes.
AddressRoundTrip ==
    (origin.edit = "encoded" /\ decoded.kind # "none")
        => decoded = AddrOk(origin.hash, origin.addr_type, origin.prefix)

AddressRoundTripWitness ==
    /\ origin.edit = "encoded"
    /\ origin.addr_type = "P2SH"
    /\ origin.prefix = SLP_PREFIX
    /\ origin.hash = HashPattern(1, 1)
    /\ decoded.kind = "Ok"
    /\ decoded.hash = HashPattern(1, 1)

\* C5: a valid address with one base32 digit after ':' replaced by another
\* digit of the alphabet decodes to Err(InvalidChecksum).
ChecksumRejection ==
    (origin.edit = "flip" /\ decoded.kind # "none")
        => decoded.kind = "InvalidChecksum"

ChecksumRejectionWitness ==
    /\ origin.edit = "flip"
    /\ text # ToCashAddr(origin.prefix, origin.addr_type, origin.hash)
    /\ SubSeq(text, 1, Len(text) - 1)
           = SubSeq(ToCashAddr(origin.prefix, origin.addr_type, origin.hash),
                    1, Len(text) - 1)
    /\ decoded.kind = "InvalidChecksum"

\* C6: a valid address "bitcoincash:P" given as "P", without the prefix and
\* the ':', decodes to the same hash and type with prefix "bitcoincash".
NoColonDefaultsPrefix ==
    (origin.edit = "noprefix" /\ decoded.kind # "none")
        => decoded = AddrOk(origin.hash, origin.addr_type, DEFAULT_PREFIX)

\* C7: from_cash_addr returns Ok or one of InvalidChecksum,
\* InvalidBase32Letter, InvalidAddressType for every input and never aborts.
FromCashAddrTotal ==
    decoded.kind \in {"none", "Ok", "InvalidChecksum", "InvalidBase32Letter",
                      "InvalidAddressType"}

\* C8: for every Address a constructor returned, cash_addr() equals
\* to_cash_addr(prefix(), addr_type(), bytes()).
AddressInvariant ==
    address.kind = "Ok"
        => address.value.cash_addr
               = ToCashAddr(address.value.prefix, address.value.addr_type,
                            address.value.bytes)

(***************************************************************************)
(* hex strings, as ASCII codes, and the transaction id conversion          *)
(***************************************************************************)
HexDigits == <<48, 49, 50, 51, 52, 53, 54, 55, 56, 57,
               97, 98, 99, 100, 101, 102>>

RECURSIVE HexEncode(_)
\* hex::encode
HexEncode(bytes) ==
    IF bytes = <<>> THEN <<>>
    ELSE <<HexDigits[(bytes[1] \div 16) + 1], HexDigits[(bytes[1] % 16) + 1]>>
             \o HexEncode(Tail(bytes))

\* the value of a hexadecimal digit, or -1
HexValue(c) ==
    IF c >= 48 /\ c <= 57 THEN c - 48
    ELSE IF c >= 97 /\ c <= 102 THEN c - 87
    ELSE IF c >= 65 /\ c <= 70 THEN c - 55
    ELSE 0 - 1

\* hex::decode returns Ok
HexDecodeOk(hex) ==
    Len(hex) % 2 = 0 /\ \A i \in 1..Len(hex) : HexValue(hex[i]) >= 0

\* hex::decode: the bytes, where it returns Ok
HexDecode(hex) ==
    [i \in 1..(Len(hex) \div 2) |->
        16 * HexValue(hex[2 * i - 1]) + HexValue(hex[2 * i])]

\* tx_hex_to_hash: the decoded bytes in reverse order
TxHexToHash(hex) == Reverse(HexDecode(hex))

(***************************************************************************)
(* wallet.rs                                                               *)
(***************************************************************************)
DustAmount == 546

SequenceFinal == <<65535, 65535>>

\* Wallet::address().bytes(): hash160 of the wallet's public key
WalletAddress(secret_key) == Hash160(PubKeySerialize(secret_key))

RECURSIVE InitTransactionLoop(_, _, _, _)
InitTransactionLoop(secret_key, utxos, i, acc) ==
    IF i > Len(utxos) THEN acc
    ELSE InitTransactionLoop(secret_key, utxos, i + 1,
             [tx_build |->
                  AddUtxo(acc.tx_build,
                      Utxo(TxOutpoint(Bytes(TxHexToHash(utxos[i].txid)),
                                      U32Of(utxos[i].vout)),
                           P2PKHOutput(utxos[i].satoshis,
                                       WalletAddress(secret_key)),
                           SequenceFinal, secret_key)),
              balance |-> acc.balance + utxos[i].satoshis])

\* Wallet::init_transaction, over the UTXOs get_utxos returned
InitTransaction(secret_key, utxos) ==
    InitTransactionLoop(secret_key, utxos, 1,
                        [tx_build |-> NewSimple, balance |-> 0])

(***************************************************************************)
(* trade.rs: accept_trades_interactive, from the selected trade on         *)
(***************************************************************************)
KnownKey == "TruthIsTreasonInTheEmpireOfLies."

TradeOfferOutput(tx_id, output_idx, sell_amount, buy_amount, receiving_address, cancel_address) ==
    [tx_id |-> tx_id, output_idx |-> output_idx, sell_amount |-> sell_amount,
     buy_amount |-> buy_amount, receiving_address |-> receiving_address,
     cancel_address |-> cancel_address]

\* into_output with the two amounts in each other's place
IntoOutputAmountsSwapped(trade) ==
    OpReturnOutput(
        <<Bytes(<<69, 88, 67, 72>>), Bytes(<<1>>), Bytes(<<83, 69, 76, 76>>),
          Bytes(trade.tx_id), LimbsBE(trade.output_idx),
          LimbsBE(U64Of(trade.buy_amount)), LimbsBE(U64Of(trade.sell_amount)),
          trade.receiving_address, trade.cancel_address>>,
        FALSE)

\* TradeOfferOutput::into_output
IntoOutput(trade) ==
    OpReturnOutput(
        <<Bytes(<<69, 88, 67, 72>>), Bytes(<<1>>), Bytes(<<83, 69, 76, 76>>),
          Bytes(trade.tx_id), LimbsBE(trade.output_idx),
          LimbsBE(U64Of(trade.sell_amount)), LimbsBE(U64Of(trade.buy_amount)),
          trade.receiving_address, trade.cancel_address>>,
        FALSE)

\* the TradeEntryOut the trade index returns for an output script: h1..h9
\* are the pushes that follow OP_RETURN, as hex, where the script has them
TradeEntryOut(script) ==
    [k \in 1..9 |->
        IF k + 1 <= Len(script.ops) /\ script.ops[k + 1].kind = "Push"
        THEN [some |-> TRUE,
              v |-> HexEncode([i \in 1..Len(script.ops[k + 1].data) |->
                                  script.ops[k + 1].data[i][1]])]
        ELSE [some |-> FALSE, v |-> <<>>]]

\* read_u32/read_u64::<BigEndian> on the first 2 * limbs bytes
ReadBE(bytes, limbs) ==
    [i \in 1..limbs |-> 256 * bytes[2 * i - 1] + bytes[2 * i]]

\* a u64 below 2^31 as the number the model keeps amounts as
U64Value(x) == 65536 * x[3] + x[4]

\* accept_trades_interactive, the closure that reads one TradeEntryOut: the
\* fields are read in order, a missing one ends the closure (`?`), one that
\* is not hex or is too short panics (unwrap, copy_from_slice)
ParseTradeEntryOut(out) ==
    LET Missing(S) == \E k \in S : ~out[k].some
        Bad(k, n, exact) ==
            \/ ~HexDecodeOk(out[k].v)
            \/ Len(out[k].v) < 2 * n
            \/ exact /\ Len(out[k].v) # 2 * n
        Field(k) == HexDecode(out[k].v)
        Order == <<[k |-> 4, n |-> 32, exact |-> TRUE],
                   [k |-> 5, n |-> 4, exact |-> FALSE],
                   [k |-> 6, n |-> 8, exact |-> FALSE],
                   [k |-> 7, n |-> 8, exact |-> FALSE],
                   [k |-> 8, n |-> 20, exact |-> TRUE],
                   [k |-> 9, n |-> 20, exact |-> TRUE]>>
        Stops == {j \in 1..6 : \/ ~out[Order[j].k].some
                               \/ Bad(Order[j].k, Order[j].n, Order[j].exact)}
        first == CHOOSE j \in Stops : \A i \in Stops : j <= i
    IN  IF out[1] # [some |-> TRUE, v |-> HexEncode(<<69, 88, 67, 72>>)]
        THEN [kind |-> "None"]
        ELSE IF Stops # {}
        THEN IF ~out[Order[first].k].some THEN [kind |-> "None"]
             ELSE [kind |-> "panic"]
        ELSE [kind |-> "Some",
              trade |-> TradeOfferOutput(
                  Field(4), ReadBE(Field(5), 2), U64Value(ReadBE(Field(6), 4)),
                  U64Value(ReadBE(Field(7), 4)),
                  Bytes(AddressFromBytes("P2PKH", Field(8)).bytes),
                  Bytes(AddressFromBytes("P2PKH", Field(9)).bytes))]

\* output_slp
AcceptOutputSlp(trade, token_id) ==
    SLPSendOutput(1, token_id, <<0, trade.sell_amount>>)

\* output_buy_amount
AcceptOutputBuyAmount(trade) ==
    P2PKHOutput(trade.buy_amount, trade.receiving_address)

\* a variant that enforces the payment before the token output
AcceptInputOutputSwapped(trade, token_id, amount) ==
    EnforceOutputsOutput(amount, trade.cancel_address,
        <<AcceptOutputBuyAmount(trade), AcceptOutputSlp(trade, token_id)>>,
        "false")

\* input_output
AcceptInputOutput(trade, token_id, amount) ==
    EnforceOutputsOutput(amount, trade.cancel_address,
        <<AcceptOutputSlp(trade, token_id), AcceptOutputBuyAmount(trade)>>,
        "false")

\* the builder before the first sign: the wallet's inputs, the offer's
\* input and the four outputs
AcceptBuild(trade, token_id, amount, secret_key, utxos, addr) ==
    LET tx_id_hex == HexEncode(Reverse(trade.tx_id))
        with_utxo ==
            AddUtxo(InitTransaction(secret_key, utxos).tx_build,
                Utxo(TxOutpoint(Bytes(TxHexToHash(tx_id_hex)),
                                trade.output_idx),
                     P2SHOutput(AcceptInputOutput(trade, token_id, amount)),
                     SequenceFinal, KnownKey))
    IN  AddOutput(
            AddOutput(
                AddOutput(
                    AddOutput(with_utxo, AcceptOutputSlp(trade, token_id)),
                    AcceptOutputBuyAmount(trade)),
                P2PKHOutput(DustAmount, addr)),
            P2PKHOutput(0, WalletAddress(secret_key)))

\* accept_trades_interactive from the selected trade to its return
AcceptTrades(trade, token_id, amount, secret_key, utxos, addr, confirm) ==
    LET balance == InitTransaction(secret_key, utxos).balance
        tx_build == AcceptBuild(trade, token_id, amount, secret_key, utxos,
                                addr)
        draft_tx == Sign(tx_build)
        estimated_size == BLen(TxWriteToStream(draft_tx))
        fee == estimated_size + 21
        total_spent == 0 + trade.buy_amount + DustAmount + fee
        final_build ==
            ReplaceOutput(tx_build, 3,
                P2PKHOutput(balance - total_spent, WalletAddress(secret_key)))
    IN  [kind |-> "Done", trade |-> trade, token_id |-> token_id,
         amount |-> amount, balance |-> balance,
         total_spent |-> total_spent,
         builds |-> IF total_spent > balance THEN <<tx_build>>
                    ELSE <<tx_build, final_build>>,
         signed |-> IF total_spent > balance THEN <<draft_tx>>
                    ELSE <<draft_tx, Sign(final_build)>>,
         sent |-> total_spent <= balance
                  /\ ToAsciiLowercase(confirm) = <<121, 101, 115>>]


(***************************************************************************)
(* Scripts, preimages, the accept flow and the covenant as a state         *)
(* machine.  Each behaviour serializes one Op, or writes one PreImage, or  *)
(* accepts one trade, or builds one candidate spend of a covenant UTXO and *)
(* feeds its scripts to a ScriptInterpreter op by op.                      *)
(***************************************************************************)
TxIdPattern(s) == [i \in 1..32 |-> (16 * s + 7 * i) % 256]

TxIds == {TxIdPattern(s) : s \in 0..MaxTxSeed}

SellAmounts == {1, 1000}

BuyAmounts == {1000, 70000}

Satoshis == {600, 100000}

Keys == {KnownKey, "wallet", "other"}

Confirms == {<<121, 101, 115>>, <<89, 69, 83>>, <<110, 111>>}

TokenId == Bytes(TxIdPattern(3))

SellerReceive == Bytes(HashPattern(1, 1))

SellerCancel == Bytes(HashPattern(2, 1))

BuyerSlp == Bytes(HashPattern(0, 1))

\* the lists of at most MaxUtxos UTXOs that get_utxos may return
UtxoLists ==
    UNION {[1..n -> {[txid |-> HexEncode(TxIdPattern(9)), vout |-> 0,
                      satoshis |-> v] : v \in Satoshis}] : n \in 0..MaxUtxos}

PushLengths == {0, 2, 75, 76, 256}

\* the single bytes and the longer vectors an Op::Push is written for
PushVectors ==
    {<<k>> : k \in 0..255} \cup {[i \in 1..n |-> i % 256] : n \in PushLengths}

OpCodes == {"OpIf", "OpReturn", "OpCheckDataSig"}

\* the scripts a PreImage carries as script_code
ScriptCodes ==
    {ScriptNew(<<>>),
     P2PKHScript(P2PKHOutput(0, SellerReceive)),
     OutputScript(EnforceOutputsOutput(0, SellerCancel,
         <<SLPSendOutput(1, TokenId, <<0, 1>>)>>, "None"))}

\* the PreImages written: the fields are public, any value can be in them
PreImagesWritten ==
    [version : {1, 2, 0 - 1},
     hash_prevouts : {DoubleSha256(Bytes(TxIdPattern(1)))},
     hash_sequence : {DoubleSha256(LimbsLE(SequenceFinal))},
     outpoint : {TxOutpoint(Bytes(TxIdPattern(2)), U32Of(1))},
     script_code : ScriptCodes,
     value : Satoshis,
     sequence : {SequenceFinal, U32Of(0)},
     hash_outputs : {DoubleSha256(<<>>), Bytes(TxIdPattern(4))},
     lock_time : {U32Of(0), U32Of(500000)},
     sighash_type : {U32Of(SIGHASH_TYPE), U32Of(1)}]

InitTx ==
    /\ text = <<>>
    /\ origin = NoOrigin
    /\ decoded = NoResult
    /\ address = NoAddress
    /\ IdleTx
    /\ IdleMain

\* Op::write_to_stream(op, is_minimal_push)
SerializeOp(op, is_minimal_push) ==
    /\ IdleTx
    /\ written' = [kind |-> "Written", op |-> op,
                   is_minimal_push |-> is_minimal_push,
                   bytes |-> OpWriteToStream(op, is_minimal_push)]
    /\ UNCHANGED <<buildVars, addrVars, restVars, fragments, accept, spend, interp>>

\* PreImage::write_to_stream_flags with the flags of pre_image_begin and of
\* pre_image_end, and PreImage::write_to_stream, on one PreImage
WritePreImage(p) ==
    /\ IdleTx
    /\ fragments' = [kind |-> "Written", pre_image |-> p,
                     begin |-> WriteToStreamFlags(p, BeginFlags),
                     end |-> WriteToStreamFlags(p, EndFlags),
                     all |-> PreImageWriteToStream(p)]
    /\ UNCHANGED <<buildVars, addrVars, restVars, written, accept, spend, interp>>

\* accept_trades_interactive
AcceptTrade(trade, utxos, confirm) ==
    /\ IdleTx
    /\ accept' = AcceptTrades(trade, TokenId, DustAmount, "wallet", utxos,
                              BuyerSlp, confirm)
    /\ UNCHANGED <<buildVars, addrVars, restVars, written, fragments, spend, interp>>


Variants == {"exact", "no change", "quantity", "value", "payee", "swapped",
             "short"}

\* the outputs of a candidate spend of a covenant that enforces `enforced`
CandidateOutputs(variant, sell_amount, buy_amount) ==
    LET slp == SLPSendOutput(1, TokenId, <<0, sell_amount>>)
        pay == P2PKHOutput(buy_amount, SellerReceive)
        change == P2PKHOutput(DustAmount, BuyerSlp)
    IN  CASE variant = "exact" -> <<slp, pay, change>>
          [] variant = "no change" -> <<slp, pay>>
          [] variant = "quantity" ->
                <<SLPSendOutput(1, TokenId, <<0, sell_amount + 1>>), pay,
                  change>>
          [] variant = "value" ->
                <<slp, P2PKHOutput(buy_amount - 1, SellerReceive), change>>
          [] variant = "payee" ->
                <<slp, P2PKHOutput(buy_amount, BuyerSlp), change>>
          [] variant = "swapped" -> <<pay, slp, change>>
          [] OTHER -> <<slp>>

RECURSIVE AddOutputs(_, _, _)
\* IncompleteTx::add_output for each of the outputs from index i on
AddOutputs(tx_build, outputs, i) ==
    IF i > Len(outputs) THEN tx_build
    ELSE AddOutputs(AddOutput(tx_build, outputs[i]), outputs, i + 1)

\* a transaction is built that spends a covenant UTXO enforcing the token
\* output and the payment, in buy mode with some key, and is signed
BuildSpend(tx_id, sell_amount, buy_amount, key, variant) ==
    LET covenant ==
            EnforceOutputsOutput(DustAmount, SellerCancel,
                <<SLPSendOutput(1, TokenId, <<0, sell_amount>>),
                  P2PKHOutput(buy_amount, SellerReceive)>>, "false")
        tx_build ==
            AddOutputs(
                AddUtxo(NewSimple,
                    Utxo(TxOutpoint(Bytes(tx_id), U32Of(1)),
                         P2SHOutput(covenant), SequenceFinal, key)),
                CandidateOutputs(variant, sell_amount, buy_amount), 1)
    IN  /\ IdleTx
        /\ spend' =
               IF SignPanics(tx_build)
               THEN [kind |-> "panic", covenant |-> covenant, key |-> key,
                     tx_build |-> tx_build]
               ELSE [kind |-> "Signed", covenant |-> covenant, key |-> key,
                     tx_build |-> tx_build, tx |-> Sign(tx_build),
                     pre_image_serialized |->
                         PreImageWriteToStream(
                             PreImages(tx_build, U32Of(SIGHASH_TYPE))[1])]
        /\ UNCHANGED <<buildVars, addrVars, restVars, written, fragments, accept, interp>>

\* a transaction is built that spends a covenant UTXO in cancel mode with
\* some key and pays the token dust back, and is signed
BuildCancel(tx_id, sell_amount, buy_amount, key) ==
    LET covenant ==
            EnforceOutputsOutput(DustAmount, SellerCancel,
                <<SLPSendOutput(1, TokenId, <<0, sell_amount>>),
                  P2PKHOutput(buy_amount, SellerReceive)>>, "true")
        tx_build ==
            AddOutput(
                AddUtxo(NewSimple,
                    Utxo(TxOutpoint(Bytes(tx_id), U32Of(1)),
                         P2SHOutput(covenant), SequenceFinal, key)),
                P2PKHOutput(DustAmount, SellerCancel))
    IN  /\ IdleTx
        /\ spend' = [kind |-> "SignedCancel", covenant |-> covenant,
                     key |-> key, tx_build |-> tx_build,
                     tx |-> Sign(tx_build),
                     pre_image_serialized |->
                         PreImageWriteToStream(
                             PreImages(tx_build, U32Of(SIGHASH_TYPE))[1])]
        /\ UNCHANGED <<buildVars, addrVars, restVars, written, fragments, accept, interp>>

\* the ops between OpIf and OpElse
BuyBranch(ops) ==
    LET else_at == CHOOSE j \in 1..Len(ops) : ops[j] = Code("OpElse")
    IN  SubSeq(ops, 2, else_at - 1)

\* ScriptInterpreter::new(pre_image_serialized), with the ops to run: the
\* unlocking script and then the redeem script ("script"), or the pushes of
\* the unlocking script below the selector and then the ops of the redeem
\* script's buy branch ("branch")
InterpreterNew(mode) ==
    LET sig_ops == spend.tx.inputs[1].script.ops
        redeem_ops == OutputScript(spend.covenant).ops
    IN  /\ spend.kind = "Signed"
        /\ interp = None
        /\ interp' =
               [kind |-> "Running", mode |-> mode, stack |-> <<>>,
                pre_image_serialized |-> spend.pre_image_serialized,
                ops |-> IF mode = "script" THEN sig_ops \o redeem_ops
                        ELSE SubSeq(sig_ops, 1, Len(sig_ops) - 2)
                                 \o BuyBranch(redeem_ops),
                result |-> "Ok"]
        /\ UNCHANGED <<buildVars, addrVars, restVars, written, fragments, accept, spend>>

\* ScriptInterpreter::run_op on the next op; the run ends with the first
\* result that is not Ok, or with the last op
InterpreterRunOp ==
    /\ interp.kind = "Running"
    /\ LET step == RunOp(interp.stack, interp.pre_image_serialized,
                         interp.ops[1])
       IN  interp' =
               [interp EXCEPT
                   !.stack = step.stack,
                   !.result = step.result,
                   !.ops = Tail(@),
                   !.kind = IF step.result # "Ok" \/ Len(interp.ops) = 1
                            THEN "Ended" ELSE "Running"]
    /\ UNCHANGED <<buildVars, addrVars, restVars, written, fragments, accept, spend>>

\* the ops of the scripts deserialized: pushes of 1 to 0xff bytes and
\* opcodes above 0x4e
ParsedOps ==
    {Push(Bytes([i \in 1..n |-> i % 256])) : n \in {1, 2, 75, 76, 255}}
        \cup {Code(c) : c \in {"Op1Negate", "OpReturn", "OpCheckDataSig",
                               "OpInvalidOpcode"}}

ParsedScripts ==
    {ScriptNewNonMinimalPush(ops) :
        ops \in {<<a>> : a \in ParsedOps}
                 \cup {<<a, b>> : a \in ParsedOps, b \in ParsedOps}}

\* Script::from_serialized(script.to_vec())
ScriptRoundTrip(script) ==
    /\ IdleTx
    /\ call' = [kind |-> "ScriptRoundTrip", script |-> script,
                data |-> ScriptToVec(script),
                result |-> FromSerialized(ScriptToVec(script))]
    /\ UNCHANGED <<buildVars, addrVars, txVars, proc, disk, chain>>

\* byte strings of at most MaxScriptLen bytes: push lengths, OP_PUSHDATA1,
\* OP_1 and OP_RETURN
MaxScriptLen == 3

ScriptBytes == {0, 1, 2, 76, 81, 106}

ByteStrings ==
    UNION {[1..n -> {<<b>> : b \in ScriptBytes}] : n \in 0..MaxScriptLen}

\* Script::from_serialized on any byte string
ScriptFromBytes(data) ==
    /\ IdleTx
    /\ call' = [kind |-> "ScriptFromBytes", data |-> data,
                result |-> FromSerialized(data)]
    /\ UNCHANGED <<buildVars, addrVars, txVars, proc, disk, chain>>

\* Script::from_serialized on one byte above 0x4e
ScriptFromByte(byte) ==
    /\ IdleTx
    /\ call' = [kind |-> "ScriptFromByte", byte |-> byte,
                result |-> FromSerialized(Bytes(<<byte>>))]
    /\ UNCHANGED <<buildVars, addrVars, txVars, proc, disk, chain>>

\* the u64 values written as varints, as 16-bit limbs: 0, 1, 0xfc, 0xfd,
\* 0xfe, 0xffff, 0x10000, 0xffffffff, 0x100000000, 0x123456789abcdef0 and
\* u64::MAX
VarInts ==
    {<<0, 0, 0, 0>>, <<0, 0, 0, 1>>, <<0, 0, 0, 252>>, <<0, 0, 0, 253>>,
     <<0, 0, 0, 254>>, <<0, 0, 0, 65535>>, <<0, 0, 1, 0>>,
     <<0, 0, 65535, 65535>>, <<0, 1, 0, 0>>, <<4660, 22136, 39612, 57072>>,
     <<65535, 65535, 65535, 65535>>}

\* write_var_int(number) and read_var_int on the bytes written
VarIntRoundTrip(number) ==
    /\ IdleTx
    /\ call' = [kind |-> "VarIntRoundTrip", number |-> number,
                bytes |-> WriteVarInt(number),
                result |-> ReadVarInt(WriteVarInt(number))]
    /\ UNCHANGED <<buildVars, addrVars, txVars, proc, disk, chain>>

\* the byte sequences repacked: the short ones over three bytes, and one of
\* 5, of 20 and of 32 bytes
RepackInputs ==
    UNION {[1..n -> {0, 165, 255}] : n \in 0..MaxRepackLen}
        \cup {[i \in 1..n |-> (i * 77) % 256] : n \in {5, 20, 32}}

\* convert_bits(x, 8, 5, true), and convert_bits(.., 5, 8, true) on its result
ConvertBitsRoundTrip(x) ==
    /\ IdleTx
    /\ LET there == ConvertBits(x, 8, 5, TRUE)
           back == ConvertBits(there.v, 5, 8, TRUE)
       IN  call' = [kind |-> "ConvertBitsRoundTrip", x |-> x,
                    there |-> there, back |-> back]
    /\ UNCHANGED <<buildVars, addrVars, txVars, proc, disk, chain>>

\* TradeOfferOutput::into_output, the trade index, and the parsing of what
\* it returns in accept_trades_interactive
TradeOfferRoundTrip(trade) ==
    /\ IdleTx
    /\ LET output == IntoOutput(trade)
           out == TradeEntryOut(OpReturnScript(output))
       IN  call' = [kind |-> "TradeOfferRoundTrip", trade |-> trade,
                    output |-> output, out |-> out,
                    parsed |-> ParseTradeEntryOut(out)]
    /\ UNCHANGED <<buildVars, addrVars, txVars, proc, disk, chain>>

(***************************************************************************)
(* trade.rs: the listing of accept_trades_interactive, from the records of *)
(* the offer index and the transaction details to valid_trades.            *)
(***************************************************************************)
RECURSIVE ParseTrades(_, _, _)
\* the for_each over the records: Some pushes a trade, None skips the
\* record, a panic ends the program
ParseTrades(outs, i, trades) ==
    IF i > Len(outs) THEN [kind |-> "Ok", trades |-> trades]
    ELSE IF ParseTradeEntryOut(outs[i]).kind = "panic"
    THEN [kind |-> "panic", trades |-> trades]
    ELSE IF ParseTradeEntryOut(outs[i]).kind = "None"
    THEN ParseTrades(outs, i + 1, trades)
    ELSE ParseTrades(outs, i + 1,
                     Append(trades, ParseTradeEntryOut(outs[i]).trade))

RECURSIVE DigitsValue(_, _, _)
\* the number that the digits from position i on continue
DigitsValue(digits, i, value) ==
    IF i > Len(digits) THEN value
    ELSE DigitsValue(digits, i + 1, 10 * value + (digits[i] - 48))

\* (value.parse::<f64>().unwrap() * 100_000_000.0) as u64, for a value
\* written with eight decimals; Err where it is not so written
ValueToSatoshis(value) ==
    IF /\ Len(value) >= 10
       /\ value[Len(value) - 8] = 46
       /\ \A i \in 1..Len(value) : i # Len(value) - 8 => value[i] \in 48..57
    THEN [ok |-> TRUE,
          v |-> DigitsValue(SubSeq(value, 1, Len(value) - 9)
                                \o SubSeq(value, Len(value) - 7, Len(value)),
                            1, 0)]
    ELSE [ok |-> FALSE, v |-> 0]

\* a TxDetailsVout
Vout(value, type, hex, spent) ==
    [value |-> value, type |-> type, hex |-> hex, spent |-> spent]

\* the script the loop reads a token id from: at least seven ops that
\* start with OP_RETURN, "SLP\0", 0x01 and "SEND"
IsSlpSend(script) ==
    /\ Len(script.ops) >= 7
    /\ script.ops[1] = Code("OpReturn")
    /\ script.ops[2] = Push(Bytes(<<83, 76, 80, 0>>))
    /\ script.ops[3] = Push(Bytes(<<1>>))
    /\ script.ops[4] = Push(Bytes(<<83, 69, 78, 68>>))

RECURSIVE ScanVout(_, _, _)
\* the loop over tx.vout from position i (counted from 1) on, and the
\* tuple the closure returns; found holds token_id and p2sh_amount
ScanVout(tx, i, found) ==
    IF i > Len(tx.vout)
    THEN IF found.token_id = <<>> \/ found.p2sh_amount = <<>>
         THEN [kind |-> "None"]
         ELSE [kind |-> "Some", tx_id |-> tx.txid,
               token_id |-> found.token_id[1],
               amount |-> found.p2sh_amount[1]]
    ELSE IF tx.vout[i].type = "scripthash" /\ i - 1 = 1
    THEN IF ~ValueToSatoshis(tx.vout[i].value).ok THEN [kind |-> "panic"]
         ELSE IF tx.vout[i].spent THEN [kind |-> "None"]
         ELSE ScanVout(tx, Len(tx.vout) + 1,
                  [found EXCEPT
                      !.p2sh_amount = <<ValueToSatoshis(tx.vout[i].value).v>>])
    ELSE IF tx.vout[i].type = "pubkeyhash" THEN ScanVout(tx, i + 1, found)
    ELSE IF ~HexDecodeOk(tx.vout[i].hex) THEN [kind |-> "panic"]
    ELSE IF FromSerialized(Bytes(HexDecode(tx.vout[i].hex))).kind = "panic"
    THEN [kind |-> "panic"]
    ELSE IF ~IsSlpSend(FromSerialized(Bytes(HexDecode(tx.vout[i].hex))))
    THEN ScanVout(tx, i + 1, found)
    ELSE IF FromSerialized(Bytes(HexDecode(tx.vout[i].hex))).ops[5].kind
                = "Push"
    THEN ScanVout(tx, i + 1,
             [found EXCEPT
                 !.token_id =
                     <<HexEncode(
                         LET vec == FromSerialized(
                                Bytes(HexDecode(tx.vout[i].hex))).ops[5].data
                         IN  [j \in 1..Len(vec) |-> vec[j][1]])>>])
    ELSE ScanVout(tx, i + 1, found)

\* token_ids: what the scan found for the transaction tx_id_hex
TokenIds(tx_details, tx_id_hex) ==
    {ScanVout(tx_details[j], 1, [token_id |-> <<>>, p2sh_amount |-> <<>>]) :
        j \in {j \in 1..Len(tx_details) : tx_details[j].txid = tx_id_hex}}

RECURSIVE ValidTradesFilter(_, _, _, _, _)
\* valid_trades: the trades whose transaction is SLP-valid, has a token id
\* and a P2SH amount in token_ids, and whose token is known
ValidTradesFilter(trades, i, valid_txs, tx_details, token_details) ==
    IF i > Len(trades) THEN <<>>
    ELSE LET tx_id_hex == HexEncode(Reverse(trades[i].tx_id))
             rest == ValidTradesFilter(trades, i + 1, valid_txs, tx_details,
                                       token_details)
         IN  IF tx_id_hex \notin valid_txs THEN rest
             ELSE IF \A t \in TokenIds(tx_details, tx_id_hex) :
                        \/ t.kind # "Some"
                        \/ t.token_id \notin token_details
             THEN rest
             ELSE LET t == CHOOSE t \in TokenIds(tx_details, tx_id_hex) :
                               t.kind = "Some"
                  IN  <<[tx_id_hex |-> tx_id_hex, trade |-> trades[i],
                         token_id |-> t.token_id, amount |-> t.amount]>>
                          \o rest

\* accept_trades_interactive from the records of the offer index to
\* valid_trades; the responses of the indexer are its inputs
ListTrades(outs, tx_details, valid_txs, token_details) ==
    /\ IdleTx
    /\ \E parsed \in {ParseTrades(outs, 1, <<>>)} :
         call' = [kind |-> "ListTrades", outs |-> outs,
                  tx_details |-> tx_details,
                  result |->
                      IF parsed.kind = "panic"
                      THEN [kind |-> "panic", trades |-> parsed.trades,
                            valid_trades |-> <<>>]
                      ELSE IF \E j \in 1..Len(tx_details) :
                                 /\ tx_details[j].txid \in valid_txs
                                 /\ ScanVout(tx_details[j], 1,
                                        [token_id |-> <<>>,
                                         p2sh_amount |-> <<>>]).kind = "panic"
                      THEN [kind |-> "panic", trades |-> parsed.trades,
                            valid_trades |-> <<>>]
                      ELSE [kind |-> "Ok", trades |-> parsed.trades,
                            valid_trades |->
                                ValidTradesFilter(parsed.trades, 1, valid_txs,
                                                  tx_details, token_details)]]
    /\ UNCHANGED <<buildVars, addrVars, txVars, proc, disk, chain>>

\* the offers announced for one covenant transaction, with output index idx
ListedOffer(idx) ==
    TradeOfferOutput(TxIdPattern(1), U32Of(idx), 1000, 1000,
                     SellerReceive, SellerCancel)

\* the record the offer index returns for an announced offer
RecordOf(trade) == TradeEntryOut(OpReturnScript(IntoOutput(trade)))

\* records as the offer index may return them: well-formed ones announcing
\* output 0, 1 or 2, one of another protocol, one without its last field,
\* one whose output index is not hex, one whose transaction id is short
TradeRecords ==
    {RecordOf(ListedOffer(idx)) : idx \in 0..2}
    \cup {[RecordOf(ListedOffer(1)) EXCEPT
              ![1] = [some |-> TRUE, v |-> HexEncode(<<83, 76, 80, 0>>)]],
          [RecordOf(ListedOffer(1)) EXCEPT
              ![9] = [some |-> FALSE, v |-> <<>>]],
          [RecordOf(ListedOffer(1)) EXCEPT
              ![5] = [some |-> TRUE, v |-> <<122, 122>>]],
          [RecordOf(ListedOffer(1)) EXCEPT
              ![4] = [some |-> TRUE, v |-> HexEncode(<<1, 2, 3>>)]]}

\* the hex of a script as the transaction details give it
ScriptHex(script) ==
    HexEncode([j \in 1..Len(ScriptToVec(script)) |-> ScriptToVec(script)[j][1]])

\* "0.00000546" and "0.00000600"
DustValue == <<48, 46, 48, 48, 48, 48, 48, 53, 52, 54>>

OtherValue == <<48, 46, 48, 48, 48, 48, 48, 54, 48, 48>>

\* the details of the covenant transaction: the SLP output, then the
\* covenant output and the change in either order, the covenant output
\* spent or not; twenty bytes stand for the script hash
TxDetails ==
    LET slp == Vout(<<48>>, "nulldata",
                    ScriptHex(OutputScript(
                        SLPSendOutput(1, TokenId, <<0, 1000>>))),
                    FALSE)
        p2sh(spent) ==
            Vout(DustValue, "scripthash",
                 ScriptHex(ScriptNew(<<Code("OpHash160"),
                                       Push(Bytes(HashPattern(1, 0))),
                                       Code("OpEqual")>>)),
                 spent)
        change == Vout(OtherValue, "pubkeyhash",
                       ScriptHex(OutputScript(
                           P2PKHOutput(600, SellerCancel))), FALSE)
        txid == HexEncode(Reverse(TxIdPattern(1)))
    IN  {[txid |-> txid, vout |-> <<slp, p2sh(FALSE), change>>],
         [txid |-> txid, vout |-> <<slp, p2sh(TRUE), change>>],
         [txid |-> txid, vout |-> <<slp, change, p2sh(FALSE)>>]}

\* the terms of an offer: what the seller fixes when creating it
OfferTerms ==
    [sell_amount : SellAmounts, buy_amount : BuyAmounts,
     token_id : {TokenId, Bytes(TxIdPattern(2))},
     receiving_address : {SellerReceive, BuyerSlp},
     cancel_address : {SellerCancel, SellerReceive}]

\* the terms that differ from `terms` in the named field, or in none
ChangedTerms(terms, field) ==
    {t \in OfferTerms :
        \A f \in DOMAIN terms : (t[f] # terms[f]) <=> (f = field)}

\* the covenant create_trade_interactive derives the P2SH address from
CreateOutput(terms) ==
    EnforceOutputsOutput(0, terms.cancel_address,
        <<SLPSendOutput(1, terms.token_id, <<0, terms.sell_amount>>),
          P2PKHOutput(terms.buy_amount, terms.receiving_address)>>,
        "None")

\* the covenant of one offer as create_trade_interactive makes it and the
\* covenant of an offer as accept_trades_interactive makes it, with their
\* scripts and the script hashes their P2SH addresses carry
CompareCovenants(terms, field, amount) ==
    /\ IdleTx
    /\ \E other \in ChangedTerms(terms, field) :
         LET created == CreateOutput(terms)
             accepted ==
                 AcceptInputOutput(
                     TradeOfferOutput(Bytes(TxIdPattern(0)), U32Of(1),
                         other.sell_amount, other.buy_amount,
                         other.receiving_address, other.cancel_address),
                     other.token_id, amount)
         IN  call' = [kind |-> "CompareCovenants",
                      terms |-> terms, other |-> other,
                      created |-> created, accepted |-> accepted,
                      created_script |-> ScriptToVec(OutputScript(created)),
                      accepted_script |-> ScriptToVec(OutputScript(accepted)),
                      created_pkh |->
                          Hash160(ScriptToVec(OutputScript(created))),
                      accepted_pkh |->
                          Hash160(ScriptToVec(OutputScript(accepted)))]
    /\ UNCHANGED <<buildVars, addrVars, txVars, proc, disk, chain>>

Next ==
    \/ \E terms \in OfferTerms, amount \in {DustAmount, 1000},
          field \in {"none", "sell_amount", "buy_amount", "token_id",
                     "receiving_address", "cancel_address"} :
           CompareCovenants(terms, field, amount)
    \/ \E v \in PushVectors, m \in BOOLEAN : SerializeOp(Push(Bytes(v)), m)
    \/ \E t \in TxIds, i \in {0, 1, 65536}, s \in SellAmounts \cup {0},
          b \in BuyAmounts \cup {2147483647}, r \in Hashes,
          c \in {SellerCancel, SellerReceive} :
           TradeOfferRoundTrip(TradeOfferOutput(t, U32Of(i), s, b, Bytes(r), c))
    \/ \E x \in RepackInputs : ConvertBitsRoundTrip(x)
    \/ \E n \in VarInts : VarIntRoundTrip(n)
    \/ \E s \in ParsedScripts : ScriptRoundTrip(s)
    \/ \E b \in 79..255 : ScriptFromByte(b)
    \/ \E data \in ByteStrings : ScriptFromBytes(data)
    \/ \E first \in TradeRecords, second \in TradeRecords, n \in 1..2,
          tx \in TxDetails, valid \in BOOLEAN :
           ListTrades(SubSeq(<<first, second>>, 1, n), <<tx>>,
                      IF valid THEN {tx.txid} ELSE {},
                      {HexEncode([j \in 1..32 |-> TokenId[j][1]])})
    \/ \E c \in OpCodes, m \in BOOLEAN : SerializeOp(Code(c), m)
    \/ \E p \in PreImagesWritten : WritePreImage(p)
    \/ \E t \in TxIds, i \in 0..1, s \in SellAmounts, b \in BuyAmounts,
          u \in UtxoLists, c \in Confirms :
           AcceptTrade(TradeOfferOutput(t, U32Of(i), s, b, SellerReceive,
                                        SellerCancel), u, c)
    \/ \E t \in TxIds, s \in SellAmounts, b \in BuyAmounts, k \in Keys,
          v \in Variants : BuildSpend(t, s, b, k, v)
    \/ \E t \in TxIds, s \in SellAmounts, b \in BuyAmounts, k \in Keys :
           BuildCancel(t, s, b, k)
    \/ \E m \in {"script", "branch"} : InterpreterNew(m)
    \/ InterpreterRunOp

Spec == InitTx /\ [][Next]_vars


(***************************************************************************)
(* Claims about scripts, preimages, the accept flow and the covenant,      *)
(* checked under Spec.                                                     *)
(***************************************************************************)

\* the run ended without a ScriptError, with true on top of the stack
Accepted ==
    /\ interp.kind = "Ended"
    /\ interp.result = "Ok"
    /\ Len(interp.stack) > 0
    /\ Top(interp.stack) = Bytes(<<1>>)

\* the redeem script's outputs_pre
OutputsPre == OutputScript(spend.covenant).ops[2].data

\* Tx.outputs[0..N] serialize to outputs_pre
OutputsMatch ==
    LET n == Len(spend.covenant.enforced_outputs)
    IN  /\ Len(spend.tx.outputs) >= n
        /\ WriteOutputs(SubSeq(spend.tx.outputs, 1, n), 1) = OutputsPre

\* C1: running the unlocking script and then the redeem script of a buy
\* spend of a covenant UTXO ends in acceptance if and only if the first N
\* outputs of the transaction serialize to the redeem script's outputs_pre.
CovenantCoupling ==
    (interp.kind = "Ended" /\ interp.mode = "script")
        => (Accepted <=> OutputsMatch)

\* C2, as stated: the redeem script pushes the hash160 of the known buy
\* key's public key, and no buy spend signed with another key is accepted.
KnownKeyEmbedded ==
    spend.kind # "None" =>
        /\ \E j \in 1..Len(OutputScript(spend.covenant).ops) :
               OutputScript(spend.covenant).ops[j]
                   = Push(Hash160(PubKeySerialize(KnownKey)))
        /\ (interp.kind = "Ended" /\ spend.key # KnownKey) => ~Accepted

\* C2, amended: the redeem script pushes outputs_pre, the byte 0x41 and the
\* cancel address hash and nothing else; the buy branch verifies with the
\* public key of the unlocking script, so its ops accept a buy spend signed
\* with any key exactly when the enforced outputs match.
AnyKeyBuys ==
    spend.kind # "None" =>
        /\ SelectSeq(OutputScript(spend.covenant).ops,
                     LAMBDA op : op.kind = "Push")
               = <<Push(EnforcedOutputsPre(spend.covenant.enforced_outputs,
                                           1)),
                   Push(Bytes(<<65>>)),
                   Push(spend.covenant.cancel_address)>>
        /\ (interp.kind = "Ended" /\ interp.mode = "branch")
               => (Accepted <=> OutputsMatch)

AnyKeyBuysWitness ==
    /\ interp.kind = "Ended"
    /\ interp.mode = "branch"
    /\ spend.key = "other"
    /\ Accepted
    /\ OutputsMatch

\* C3: the draft and the final transaction of the accept flow spend the
\* offer's outpoint; their first two outputs are the token SEND output with
\* quantities [0, sell_amount] and the payment of buy_amount to the seller's
\* receive hash; the redeem script they push is the covenant over exactly
\* the serialization of these two, and that serialization followed by the
\* pushed outputs_end is the serialization of all outputs.
AcceptPaysEnforced ==
    accept.kind = "Done" =>
        \A k \in 1..Len(accept.signed) :
            LET tx == accept.signed[k]
                trade == accept.trade
                sig_ops == tx.inputs[Len(tx.inputs)].script.ops
                first_two == WriteOutputs(SubSeq(tx.outputs, 1, 2), 1)
            IN  /\ tx.inputs[Len(tx.inputs)].outpoint
                       = TxOutpoint(Bytes(trade.tx_id), trade.output_idx)
                /\ Len(tx.outputs) = 4
                /\ tx.outputs[1]
                       = TxOutputNew(0, SLPSendScript(SLPSendOutput(1,
                             accept.token_id, <<0, trade.sell_amount>>)))
                /\ tx.outputs[2]
                       = TxOutputNew(trade.buy_amount,
                             P2PKHScript(P2PKHOutput(trade.buy_amount,
                                 trade.receiving_address)))
                /\ sig_ops[Len(sig_ops)].data
                       = ScriptToVec(ScriptNew(
                             EnforceOutputsOps(first_two,
                                               trade.cancel_address)))
                /\ first_two \o sig_ops[5].data = WriteOutputs(tx.outputs, 1)

AcceptPaysEnforcedWitness ==
    /\ accept.kind = "Done"
    /\ Len(accept.signed) = 2
    /\ Len(accept.signed[2].inputs) = 3
    /\ accept.sent

\* C9: under the minimal-push policy the push of the single byte k is
\* written as the one byte 0x50 + k for k in 1..16, as the one byte 0x00
\* for k = 0, and as the two bytes 0x01 k for any other k.
PushMinimality ==
    (/\ written.kind = "Written"
     /\ written.op.kind = "Push"
     /\ written.is_minimal_push
     /\ Len(written.op.data) = 1)
        => LET k == written.op.data[1][1]
           IN  written.bytes =
                   IF k >= 1 /\ k <= 16 THEN Bytes(<<80 + k>>)
                   ELSE IF k = 0 THEN Bytes(<<0>>)
                   ELSE Bytes(<<1, k>>)

\* C10: the bytes written with the flags version .. sequence, then
\* hash_outputs, then the bytes written with the flags lock_time and
\* sighash_type, are the bytes write_to_stream writes.
PreImageFragmentation ==
    fragments.kind = "Written" =>
        fragments.begin \o fragments.pre_image.hash_outputs \o fragments.end
            = fragments.all

PreImageFragmentationWitness ==
    /\ fragments.kind = "Written"
    /\ fragments.pre_image.script_code.ops # <<>>
    /\ fragments.pre_image.script_code.ops[1] = Code("OpIf")
    /\ fragments.pre_image.version < 0
    /\ BLen(fragments.all) > 182


\* the signature sign() hands to the descriptor of the i-th input
HandedSignature(tx_build, i) ==
    SignDer(DoubleSha256(PreImageWriteToStream(
                PreImages(tx_build, U32Of(SIGHASH_TYPE))[i])),
            tx_build.inputs[i].key) \o Bytes(<<65>>)

\* C11: a signed transaction has one input per UTXO of the builder, the
\* i-th with the i-th UTXO's outpoint and sequence and with the unlocking
\* script its descriptor returns for the signature over the i-th preimage
\* followed by the byte 0x41, the public key, the i-th preimage and the
\* builder's outputs; outputs, version and lock_time are the builder's.
SignAssembles ==
    accept.kind = "Done" =>
        \A k \in 1..Len(accept.signed) :
            LET tx == accept.signed[k]
                tx_build == accept.builds[k]
            IN  /\ Len(tx.inputs) = Len(tx_build.inputs)
                /\ tx.outputs = tx_build.outputs
                /\ tx.version = tx_build.version
                /\ tx.lock_time = tx_build.lock_time
                /\ \A i \in 1..Len(tx.inputs) :
                       /\ tx.inputs[i].outpoint = tx_build.inputs[i].outpoint
                       /\ tx.inputs[i].sequence = tx_build.inputs[i].sequence
                       /\ tx.inputs[i].script
                              = OutputSigScript(tx_build.inputs[i].output,
                                    HandedSignature(tx_build, i),
                                    PubKeySerialize(tx_build.inputs[i].key),
                                    PreImages(tx_build,
                                              U32Of(SIGHASH_TYPE))[i],
                                    tx_build.outputs)
                       /\ tx_build.inputs[i].output.type = "P2PKH"
                              => tx.inputs[i].script.ops[1].data[2] = <<65>>

SignAssemblesWitness ==
    /\ accept.kind = "Done"
    /\ Len(accept.signed) = 2
    /\ Len(accept.signed[2].inputs) = 3
    /\ accept.signed[2].inputs[1].script.ops[1].data[2] = <<65>>
    /\ accept.signed[2].inputs[3].outpoint
           # accept.signed[2].inputs[1].outpoint



\* C12: deserializing the bytes of a non-minimal-push script made of pushes
\* of 1 to 0xff bytes and of opcodes above 0x4e gives back the script's ops,
\* and a byte that is no push and no enumerated opcode is parsed as
\* Code(OpInvalidOpcode).
ScriptDeserializationInverts ==
    /\ call.kind = "ScriptRoundTrip" =>
            /\ call.result.kind = "Ok"
            /\ call.result.ops = call.script.ops
    /\ (/\ call.kind = "ScriptFromByte"
        /\ \A name \in DOMAIN OpCodeByte : OpCodeByte[name] # call.byte) =>
            /\ call.result.kind = "Ok"
            /\ call.result.ops = <<Code("OpInvalidOpcode")>>


\* C13: a varint written by write_var_int is read back by read_var_int as
\* the same number, and it takes 1 byte below 0xfd, 3 bytes with prefix 0xfd
\* up to 0xffff, 5 bytes with prefix 0xfe up to 0xffffffff and 9 bytes with
\* prefix 0xff above.
VarIntInverse ==
    call.kind = "VarIntRoundTrip" =>
        LET n == call.number
        IN  /\ call.result = [kind |-> "Ok", value |-> n]
            /\ IF n[1] = 0 /\ n[2] = 0 /\ n[3] = 0 /\ n[4] < 253
               THEN Len(call.bytes) = 1
               ELSE IF n[1] = 0 /\ n[2] = 0 /\ n[3] = 0
               THEN Len(call.bytes) = 3 /\ call.bytes[1] = <<253>>
               ELSE IF n[1] = 0 /\ n[2] = 0
               THEN Len(call.bytes) = 5 /\ call.bytes[1] = <<254>>
               ELSE Len(call.bytes) = 9 /\ call.bytes[1] = <<255>>

\* 0xfd, the smallest number with a prefix, and u64::MAX have been written
\* and read back
VarIntInverseWitness ==
    /\ call.kind = "VarIntRoundTrip"
    /\ call.number \in {<<0, 0, 0, 253>>, <<65535, 65535, 65535, 65535>>}
    /\ call.bytes[1] \in {<<253>>, <<255>>}
    /\ call.result.kind = "Ok"
    /\ call.result.value = call.number


\* C14: repacking a byte sequence x from 8 to 5 bits and back, padding both
\* times, gives x followed by at most 4 zero bytes, so that the first Len(x)
\* bytes of the result are x.
ConvertBitsInverse ==
    call.kind = "ConvertBitsRoundTrip" =>
        /\ call.there.some
        /\ call.back.some
        /\ Len(call.back.v) >= Len(call.x)
        /\ Len(call.back.v) <= Len(call.x) + 4
        /\ SubSeq(call.back.v, 1, Len(call.x)) = call.x
        /\ \A i \in Len(call.x) + 1..Len(call.back.v) : call.back.v[i] = 0

\* a sequence whose bits do not fill the last 5-bit group came back with a
\* padding byte, and a 20-byte sequence came back alone
ConvertBitsInverseWitness ==
    /\ call.kind = "ConvertBitsRoundTrip"
    /\ \/ /\ call.x = <<255, 165, 255>>
          /\ Len(call.there.v) = 5
          /\ call.back.v = <<255, 165, 255, 0>>
       \/ /\ Len(call.x) = 20
          /\ Len(call.there.v) = 32
          /\ call.back.v = call.x


\* the 4 bytes of a number below 2^31, most significant first
BigEndian4(n) ==
    Bytes(<<n \div 16777216, (n \div 65536) % 256, (n \div 256) % 256, n % 256>>)

\* C15: into_output gives a non-minimal-push OP_RETURN with the nine pushes
\* "EXCH", 0x01, "SELL", tx_id, output_idx in 4 bytes big-endian, sell_amount
\* and buy_amount in 8 bytes big-endian, receive hash and cancel hash, and
\* parsing them as h1..h9 in the accept flow gives the same six values.
TradeOfferInverse ==
    call.kind = "TradeOfferRoundTrip" =>
        /\ ~call.output.is_minimal_push
        /\ OpReturnScript(call.output).ops[1] = Code("OpReturn")
        /\ call.output.pushes =
               <<Bytes(<<69, 88, 67, 72>>), Bytes(<<1>>),
                 Bytes(<<83, 69, 76, 76>>), Bytes(call.trade.tx_id),
                 BigEndian4(65536 * call.trade.output_idx[1]
                                + call.trade.output_idx[2]),
                 Bytes(<<0, 0, 0, 0>>) \o BigEndian4(call.trade.sell_amount),
                 Bytes(<<0, 0, 0, 0>>) \o BigEndian4(call.trade.buy_amount),
                 call.trade.receiving_address, call.trade.cancel_address>>
        /\ call.parsed = [kind |-> "Some", trade |-> call.trade]

\* an offer whose six fields all differ from zero and from each other has
\* been published and parsed
TradeOfferInverseWitness ==
    /\ call.kind = "TradeOfferRoundTrip"
    /\ call.parsed.kind = "Some"
    /\ call.parsed.trade.output_idx = <<1, 0>>
    /\ call.parsed.trade.sell_amount = 1000
    /\ call.parsed.trade.buy_amount = 2147483647
    /\ call.parsed.trade.tx_id = TxIdPattern(1)
    /\ call.parsed.trade.receiving_address # call.parsed.trade.cancel_address
    /\ Len(call.out[9].v) = 40


(***************************************************************************)
(* main.rs, wallet.rs, trade.rs: the program as a state machine.  A run    *)
(* starts with ensure_wallet_interactive and then serves the menu; what    *)
(* the user types and what the network answers are chosen by the           *)
(* environment.  A secret is <<name, n>>: the first n bytes of the 32      *)
(* bytes called name, followed by zeros.                                   *)
(***************************************************************************)

\* "zero" is 32 zero bytes and "max" is 32 bytes 0xff
Secret(name, n) == IF name = "zero" \/ n = 0 THEN <<"zero", 32>> ELSE <<name, n>>

\* secp256k1::SecretKey::from_slice returns Ok: the number is not zero and is
\* below the group order, whose first 16 bytes are ff..fe
ValidScalar(secret) ==
    /\ secret[1] # "zero"
    /\ secret[1] = "max" => secret[2] < 16

\* the wallet file: absent, not openable, or the first len bytes of `bytes`
\* (followed by other bytes where len is above 32)
NoFile == [kind |-> "Absent", bytes |-> "", len |-> 0]

File(bytes, len) == [kind |-> "File", bytes |-> bytes, len |-> len]

\* `let mut secret_bytes = [0; 32]; file.read(&mut secret_bytes)`
ReadSecretBytes(file) ==
    Secret(file.bytes, IF file.len < 32 THEN file.len ELSE 32)

\* what a menu flow did: the error that ended it, what it reported, how
\* often it called sign() and whether it sent a transaction
Outcome(flow, cause, report, signed, sent) ==
    [flow |-> flow, cause |-> cause, report |-> report, signed |-> signed,
     sent |-> sent, short |-> FALSE, outputs |-> <<>>, utxo |-> None]

\* the same, of a flow in which the balance did not cover the requested
\* output values and the fee
Short(outcome) == [outcome EXCEPT !.short = TRUE]

NoOutcome == Outcome("", "none", "none", 0, FALSE)

\* the process: kind is "NotStarted", "Menu", a prompt of a flow (with what
\* the flow holds in `pending`), "Waiting" (in wait_for_transaction),
\* "Received" (wait_for_transaction has returned), "Exited" (main returned,
\* with the exit code) or "Panicked"
Proc(kind, code, run, wallet, last, pending) ==
    [kind |-> kind, code |-> code, run |-> run, wallet |-> wallet,
     last |-> last, pending |-> pending]

\* the flow returned Ok(()) to the loop of main, or main propagated its Err
\* with `?` and the process ended with exit code 1, or it panicked (101)
BackToMenu(last) == Proc("Menu", 0, proc.run, proc.wallet, last, None)

MainReturnsErr(last) == Proc("Exited", 1, proc.run, <<>>, last, None)

Panic(last) == Proc("Panicked", 101, proc.run, <<>>, last, None)

\* the secrets OsRng may generate
Generated == {<<"fresh", 32>>, <<"zero", 32>>, <<"max", 32>>}

\* the wallet files a run may find
Files ==
    {NoFile, [kind |-> "Unreadable", bytes |-> "", len |-> 0],
     File("stored", 32), File("stored", 31), File("stored", 33),
     File("stored", 0), File("zero", 32), File("max", 32)}

InitMain ==
    /\ text = <<>>
    /\ origin = NoOrigin
    /\ decoded = NoResult
    /\ address = NoAddress
    /\ IdleTx
    /\ proc = Proc("NotStarted", 0, 0, <<>>, NoOutcome, None)
    /\ disk \in Files
    /\ chain = [p2sh |-> <<>>]

\* main up to its loop: ensure_wallet_interactive with the bytes OsRng
\* would generate
EnsureWalletInteractive(generated) ==
    /\ proc.kind \in {"NotStarted", "Exited", "Panicked"}
    /\ proc.run < MaxRuns
    /\ LET secret_bytes == IF disk.kind = "File" THEN ReadSecretBytes(disk)
                           ELSE generated
           run == proc.run + 1
       IN  IF disk.kind = "Unreadable"
           THEN /\ proc' = Proc("Exited", 1, run, <<>>,
                                Outcome("ensure_wallet", "io", "none", 0, FALSE),
                                None)
                /\ UNCHANGED disk
           ELSE IF ~ValidScalar(secret_bytes)
           THEN /\ proc' = Proc("Exited", 1, run, <<>>,
                                Outcome("ensure_wallet", "format", "none", 0,
                                        FALSE), None)
                /\ UNCHANGED disk
           ELSE /\ proc' = Proc("Menu", 0, run, secret_bytes, NoOutcome, None)
                /\ disk' = IF disk.kind = "File" THEN disk
                           ELSE File(secret_bytes[1], 32)
    /\ UNCHANGED <<buildVars, addrVars, txVars, call, chain>>

\* the lists get_utxos may return for the wallet's address: none, one UTXO
\* of 600 or of 100000 satoshis, and four of 137 satoshis each
WalletUtxoLists ==
    {<<>>, [i \in 1..4 |-> [txid |-> HexEncode(TxIdPattern(9)), vout |-> i - 1, satoshis |-> 137]]}
    \cup {<<[txid |-> HexEncode(TxIdPattern(9)), vout |-> 0, satoshis |-> v]>> : v \in {600, 100000}}

\* the answers of get_utxos's request: an error, or a list
UtxoResponses == {<<"Err">>} \cup {<<"Ok", u>> : u \in WalletUtxoLists}

\* show_balance: get_utxos unwraps the response
ShowBalance(response) ==
    /\ proc.kind = "Menu"
    /\ proc' = IF response[1] = "Err"
               THEN Panic(Outcome("show_balance", "network", "none", 0, FALSE))
               ELSE BackToMenu(Outcome("show_balance", "none", "balance", 0,
                                       FALSE))
    /\ UNCHANGED <<buildVars, addrVars, txVars, call, disk, chain>>

\* str::trim, for the white space of ASCII
Trim(str) ==
    LET White == {9, 10, 11, 12, 13, 32}
        Black == {i \in 1..Len(str) : str[i] \notin White}
    IN  IF Black = {} THEN <<>>
        ELSE SubSeq(str, CHOOSE i \in Black : \A j \in Black : i <= j,
                    CHOOSE i \in Black : \A j \in Black : i >= j)

RECURSIVE DecimalValue(_)
DecimalValue(digits) ==
    IF digits = <<>> THEN 0
    ELSE 10 * DecimalValue(SubSeq(digits, 1, Len(digits) - 1))
             + (digits[Len(digits)] - 48)

\* str::parse::<u64> and ::<usize>, for strings of at most 9 digits: an
\* optional '+', then one digit or more
ParseU64(str) ==
    LET digits == IF Len(str) > 0 /\ str[1] = 43 THEN Tail(str) ELSE str
    IN  IF digits = <<>> \/ \E i \in 1..Len(digits) : digits[i] \notin 48..57
        THEN [ok |-> FALSE, v |-> 0]
        ELSE [ok |-> TRUE, v |-> DecimalValue(digits)]

RECURSIVE SumScripts(_, _)
SumScripts(outputs, i) ==
    IF i > Len(outputs) THEN 0
    ELSE BLen(ScriptToVec(outputs[i].script)) + SumScripts(outputs, i + 1)

\* IncompleteTx::estimate_size
EstimateSize(tx_build) ==
    4 + Len(tx_build.inputs) * 148 + 1 + SumScripts(tx_build.outputs, 1) + 4

\* a u64 below 2^31, and the u64 2^64 - n
Exact(n) == <<"exact", n>>

Wrapped(n) == <<"wrapped", n>>

\* `a - b` on u64: where b is above a, a build with overflow checks panics
\* and one without wraps to 2^64 - (b - a)
SubU64(a, b, overflow_checks) ==
    IF a >= b THEN [kind |-> "Ok", v |-> Exact(a - b)]
    ELSE IF overflow_checks THEN [kind |-> "panic", v |-> Exact(0)]
    ELSE [kind |-> "Ok", v |-> Wrapped(b - a)]

\* an output of a transaction sent: a payment to the hash `to`, the change
\* to the wallet's address or an OP_RETURN with its pushes
Sent(kind, value, to, pushes) ==
    [kind |-> kind, value |-> value, to |-> to, pushes |-> pushes]

\* "bitcoincash:qqyq78nf2w": a version byte and no hash, with its checksum
HashlessLine ==
    DEFAULT_PREFIX \o <<58, 113, 113, 121, 113, 55, 56, 110, 102, 50, 119>>

\* what the user may type as an address: a cash address of the default
\* prefix, one of the SLP prefix with blanks around it, "qq", and the
\* address without a hash
AddressLines ==
    {ToCashAddr(DEFAULT_PREFIX, "P2PKH", HashPattern(1, 1)),
     <<32>> \o ToCashAddr(SLP_PREFIX, "P2PKH", HashPattern(0, 1)) \o <<32>>,
     <<113, 113>>, HashlessLine}

\* each with what Address::from_cash_addr returns for it, trimmed
AddressLinesParsed == {<<a, AddressFromCashAddr(Trim(a))>> : a \in AddressLines}

\* what the user may type as a number of satoshis: "all", "1000", "150000 ",
\* "+7", "0x10" and the empty line
AmountLines ==
    {<<97, 108, 108>>, <<49, 48, 48, 48>>, <<49, 53, 48, 48, 48, 48, 32>>,
     <<43, 55>>, <<48, 120, 49, 48>>, <<>>}

\* do_transaction up to its first prompt: the answer to get_utxos in
\* init_transaction
DoTransaction(response) ==
    /\ proc.kind = "Menu"
    /\ LET flow == "do_transaction"
           balance == InitTransaction(proc.wallet, response[2]).balance
       IN  proc' =
               IF response[1] = "Err"
               THEN Panic(Outcome(flow, "network", "none", 0, FALSE))
               ELSE IF balance < DustAmount
               THEN BackToMenu(Short(Outcome(flow, "funds",
                                             "insufficient balance", 0, FALSE)))
               ELSE Proc("SendAddressPrompt", 0, proc.run, proc.wallet,
                         NoOutcome, [utxos |-> response[2]])
    /\ UNCHANGED <<buildVars, addrVars, txVars, call, disk, chain>>

\* do_transaction from the address line typed (here with what
\* from_cash_addr returns for it, trimmed) to the amount prompt
EnterSendAddress(addr_line) ==
    /\ proc.kind = "SendAddressPrompt"
    /\ LET flow == "do_transaction"
           receiving_addr == addr_line[2]
       IN  proc' =
               IF receiving_addr.kind = "panic"
               THEN Panic(Outcome(flow, "input", "none", 0, FALSE))
               ELSE IF receiving_addr.kind # "Ok"
               THEN BackToMenu(Outcome(flow, "input", "invalid address", 0,
                                       FALSE))
               ELSE Proc("AmountPrompt", 0, proc.run, proc.wallet, NoOutcome,
                         [utxos |-> proc.pending.utxos,
                          receiving_addr |-> receiving_addr.value])
    /\ UNCHANGED <<buildVars, addrVars, txVars, call, disk, chain>>

\* do_transaction from the amount line typed on: the answer to send_tx, and
\* whether the build checks overflow
EnterSendAmount(amount_str, send_response, overflow_checks) ==
    /\ proc.kind = "AmountPrompt"
    /\ LET flow == "do_transaction"
           init == InitTransaction(proc.wallet, proc.pending.utxos)
           balance == init.balance
           receiving_addr == proc.pending.receiving_addr
           all == Trim(amount_str) = <<97, 108, 108>>
           parsed == ParseU64(Trim(amount_str))
           send_amount == IF all THEN balance ELSE parsed.v
           wallet_addr == WalletAddress(proc.wallet)
           tx_build ==
               AddOutput(
                   AddOutput(init.tx_build,
                       P2PKHOutput(send_amount, Bytes(receiving_addr.bytes))),
                   P2PKHOutput(0, wallet_addr))
           estimated_size == EstimateSize(tx_build)
           clamp == balance < send_amount + (estimated_size + 5)
           send_value ==
               IF clamp THEN SubU64(balance, estimated_size + 5, overflow_checks)
               ELSE [kind |-> "Ok", v |-> Exact(send_amount)]
           send_back_to_wallet_amount ==
               IF clamp THEN 0
               ELSE balance - (send_amount + estimated_size + 5)
           outputs ==
               <<Sent("payment", send_value.v, receiving_addr.bytes, <<>>)>>
               \o IF send_back_to_wallet_amount < DustAmount THEN <<>>
                  ELSE <<Sent("change", Exact(send_back_to_wallet_amount),
                              <<>>, <<>>)>>
           Mark(outcome) == IF clamp /\ ~all THEN Short(outcome) ELSE outcome
       IN  proc' =
               IF ~all /\ ~parsed.ok
               THEN MainReturnsErr(Outcome(flow, "input", "none", 0, FALSE))
               ELSE IF send_value.kind = "panic"
               THEN Panic(Mark(Outcome(flow, "funds", "none", 0, FALSE)))
               ELSE IF send_response = "Err"
               THEN MainReturnsErr(Mark(Outcome(flow, "network", "none", 1,
                                                FALSE)))
               ELSE BackToMenu(Mark([Outcome(flow, "none", "sent", 1, TRUE)
                                        EXCEPT !.outputs = outputs]))
    /\ UNCHANGED <<buildVars, addrVars, txVars, call, disk, chain>>

\* what the user may type as a number: "0", "7", "x" and the empty line
NumberLines == {<<48>>, <<55>>, <<120>>, <<>>}

\* str::parse::<f64>, for the lines typed here, which hold no '.', no
\* exponent and no name of a special value
ParseF64(str) == ParseU64(str)

\* create_trade_interactive up to the call of wait_for_transaction.  tokens
\* is what the two calls of fetch_tokens come to: "Err" (the first request
\* fails), "ListErr" (no token of that id, and the request or the JSON of the
\* list fails), "NoMatch", "One" or "Many" (two) tokens found, each with a
\* well-formed id and 0 decimals; the user types the three lines
CreateTradeInteractive(tokens, token_idx_str, sell_amount_str, buy_amount_str) ==
    /\ proc.kind = "Menu"
    /\ LET flow == "create_trade"
           token_idx == ParseU64(token_idx_str)
           sell_amount_display == ParseF64(sell_amount_str)
           buy_amount == ParseU64(buy_amount_str)
       IN  proc' =
               IF tokens \in {"Err", "ListErr"}
               THEN MainReturnsErr(Outcome(flow, "network", "none", 0, FALSE))
               ELSE IF tokens = "NoMatch"
               THEN BackToMenu(Outcome(flow, "none", "no token", 0, FALSE))
               ELSE IF tokens = "Many" /\ token_idx_str = <<>>
               THEN BackToMenu(Outcome(flow, "none", "bye", 0, FALSE))
               ELSE IF tokens = "Many" /\ ~token_idx.ok
               THEN BackToMenu(Outcome(flow, "input", "invalid number", 0,
                                       FALSE))
               ELSE IF tokens = "Many" /\ token_idx.v >= 2
               THEN BackToMenu(Outcome(flow, "input", "not in the list", 0,
                                       FALSE))
               ELSE IF ~sell_amount_display.ok \/ ~buy_amount.ok
               THEN MainReturnsErr(Outcome(flow, "input", "invalid number", 0,
                                           FALSE))
               ELSE Proc("Waiting", 0, proc.run, proc.wallet, NoOutcome,
                         [sell_amount |-> sell_amount_display.v,
                          buy_amount |-> buy_amount.v, polled |-> <<>>,
                          returned |-> None])
    \* chain.p2sh lists the UTXOs of the covenant address of this offer
    /\ chain' = [p2sh |-> <<>>]
    /\ UNCHANGED <<buildVars, addrVars, txVars, call, disk>>

\* the k-th UTXO the covenant address receives
Funding(k) == [txid |-> HexEncode(TxIdPattern(k)), vout |-> k - 1, satoshis |-> DustAmount]

\* the network: a payment to the covenant address reaches the indexer
IndexerSeesPayment ==
    /\ proc.kind = "Waiting"
    /\ Len(chain.p2sh) < MaxFunding
    /\ chain' = [chain EXCEPT !.p2sh = Append(@, Funding(Len(@) + 1))]
    /\ UNCHANGED <<buildVars, addrVars, txVars, call, proc, disk>>

\* Wallet::wait_for_transaction, one round of its loop: get_utxos unwraps
\* the response
WaitForTransaction(response) ==
    /\ proc.kind = "Waiting"
    /\ IF response = "Err"
       THEN proc' = Panic(Outcome("create_trade", "network", "none", 0,
                                  FALSE))
       ELSE LET utxos == chain.p2sh
            IN  proc' = IF Len(utxos) > 0
                        THEN [proc EXCEPT !.kind = "Received",
                                          !.pending.polled = utxos,
                                          !.pending.returned = Head(utxos)]
                        ELSE [proc EXCEPT !.pending.polled = utxos]
    /\ UNCHANGED <<buildVars, addrVars, txVars, call, disk, chain>>

\* confirm_trade_interactive from the return of wait_for_transaction on
ConfirmTradeInteractive(response, send_response, overflow_checks) ==
    /\ proc.kind = "Received"
    /\ LET flow == "create_trade"
           utxo == proc.pending.returned
           init == InitTransaction(proc.wallet, response[2])
           balance == init.balance
           wallet_addr == WalletAddress(proc.wallet)
           offer == IntoOutput(TradeOfferOutput(
                        TxHexToHash(utxo.txid), U32Of(utxo.vout),
                        proc.pending.sell_amount, proc.pending.buy_amount,
                        wallet_addr, wallet_addr))
           tx_build == AddOutput(init.tx_build, offer)
           size_so_far == EstimateSize(tx_build)
           size_output ==
               BLen(ScriptToVec(OutputScript(P2PKHOutput(0, wallet_addr))))
           \* balance - (size_so_far + size_output) - 20
           value == SubU64(balance, size_so_far + size_output + 20,
                           overflow_checks)
           outputs == <<Sent("op_return", Exact(0), <<>>, offer.pushes),
                        Sent("change", value.v, <<>>, <<>>)>>
           Mark(outcome) ==
               [(IF balance < size_so_far + size_output + 20
                 THEN Short(outcome) ELSE outcome) EXCEPT !.utxo = utxo]
       IN  proc' =
               IF response[1] = "Err"
               THEN Panic(Outcome(flow, "network", "none", 0, FALSE))
               ELSE IF value.kind = "panic"
               THEN Panic(Mark(Outcome(flow, "funds", "none", 0, FALSE)))
               ELSE IF send_response = "Err"
               THEN MainReturnsErr(Mark(Outcome(flow, "network", "none", 1,
                                                FALSE)))
               ELSE BackToMenu(Mark([Outcome(flow, "none", "sent", 1, TRUE)
                                        EXCEPT !.outputs = outputs]))
    /\ UNCHANGED <<buildVars, addrVars, txVars, call, disk, chain>>

\* the trade offers the four requests of accept_trades_interactive may leave
\* as valid_trades: none, or one that asks for 1000 satoshis
ValidTrades ==
    {<<>>, <<TradeOfferOutput(TxIdPattern(1), U32Of(1), 1000, 1000,
                              SellerReceive, SellerCancel)>>}

\* accept_trades_interactive up to its first prompt.  failing is the first
\* of the four requests (trade index, validity, details, token list) whose
\* response fails or is no JSON of the expected shape, 5 where a record of
\* the trade index holds a field that is not hex, 0 where none fails;
\* response is what get_utxos receives in init_transaction
LoadTrades(failing, valid_trades, response) ==
    /\ proc.kind = "Menu"
    /\ LET flow == "accept_trades"
       IN  proc' =
               IF failing = 5
               THEN Panic(Outcome(flow, "network", "none", 0, FALSE))
               ELSE IF failing > 0
               THEN MainReturnsErr(Outcome(flow, "network", "none", 0, FALSE))
               ELSE IF response[1] = "Err"
               THEN Panic(Outcome(flow, "network", "none", 0, FALSE))
               ELSE IF Len(valid_trades) = 0
               THEN BackToMenu(Outcome(flow, "none", "no trades", 0, FALSE))
               ELSE Proc("OfferPrompt", 0, proc.run, proc.wallet, NoOutcome,
                         [valid_trades |-> valid_trades,
                          utxos |-> response[2]])
    /\ UNCHANGED <<buildVars, addrVars, txVars, call, disk, chain>>

\* accept_trades_interactive from the offer number typed to the address
\* prompt
ChooseOffer(offer_idx_str) ==
    /\ proc.kind = "OfferPrompt"
    /\ LET flow == "accept_trades"
           offer_idx == ParseU64(offer_idx_str)
       IN  proc' =
               IF Len(offer_idx_str) = 0
               THEN BackToMenu(Outcome(flow, "none", "bye", 0, FALSE))
               ELSE IF ~offer_idx.ok
               THEN MainReturnsErr(Outcome(flow, "input", "invalid number", 0,
                                           FALSE))
               ELSE IF offer_idx.v >= Len(proc.pending.valid_trades)
               THEN BackToMenu(Outcome(flow, "input", "invalid number", 0,
                                       FALSE))
               ELSE Proc("AddressPrompt", 0, proc.run, proc.wallet, NoOutcome,
                         [trade |-> proc.pending.valid_trades[offer_idx.v + 1],
                          utxos |-> proc.pending.utxos, prompts |-> 1])
    /\ UNCHANGED <<buildVars, addrVars, txVars, call, disk, chain>>

\* what the user may type at the address prompt: an address of the SLP
\* prefix, one of the default prefix, "qq", the address without a hash, and
\* the empty line
SlpAddressLines ==
    {ToCashAddr(SLP_PREFIX, "P2PKH", HashPattern(0, 1)),
     ToCashAddr(DEFAULT_PREFIX, "P2PKH", HashPattern(0, 1)),
     <<113, 113>>, HashlessLine, <<>>}

\* accept_trades_interactive, one round of the address loop and, once the
\* address is accepted, on to the confirmation prompt
EnterSlpAddress(receiving_addr_str) ==
    /\ proc.kind = "AddressPrompt"
    /\ \E addr \in {AddressFromCashAddr(receiving_addr_str)} :
          IF Len(receiving_addr_str) = 0
          THEN proc' = BackToMenu(Outcome("accept_trades", "none", "bye", 0,
                                          FALSE))
          ELSE IF addr.kind = "panic"
          THEN proc' = Panic(Outcome("accept_trades", "input", "none", 0,
                                     FALSE))
          ELSE IF addr.kind # "Ok" \/ addr.value.prefix # SLP_PREFIX
          THEN proc' = [proc EXCEPT !.pending.prompts = 2]
          ELSE \E drafted \in {AcceptTrades(proc.pending.trade, TokenId,
                                             DustAmount, proc.wallet,
                                             proc.pending.utxos,
                                             Bytes(addr.value.bytes), <<>>)} :
                  proc' =
                      IF drafted.total_spent > drafted.balance
                      THEN BackToMenu(Short(Outcome("accept_trades", "funds",
                                                    "insufficient balance",
                                                    Len(drafted.signed),
                                                    FALSE)))
                      ELSE Proc("ConfirmPrompt", 0, proc.run, proc.wallet,
                                NoOutcome,
                                [balance |-> drafted.balance,
                                 total_spent |-> drafted.total_spent,
                                 signed |-> Len(drafted.signed)])
    /\ UNCHANGED <<buildVars, addrVars, txVars, call, disk, chain>>

\* accept_trades_interactive from the answer to "Should the transaction be
\* broadcast now" on
ConfirmSend(confirm_send, send_response) ==
    /\ proc.kind = "ConfirmPrompt"
    /\ LET flow == "accept_trades"
           signed == proc.pending.signed
       IN  proc' =
               IF ToAsciiLowercase(confirm_send) # <<121, 101, 115>>
               THEN BackToMenu(Outcome(flow, "none", "none", signed, FALSE))
               ELSE IF send_response = "Err"
               THEN MainReturnsErr(Outcome(flow, "network", "none", signed,
                                           FALSE))
               ELSE BackToMenu(Outcome(flow, "none", "sent", signed, TRUE))
    /\ UNCHANGED <<buildVars, addrVars, txVars, call, disk, chain>>

\* main, the last arm of the menu: any other choice
Exit ==
    /\ proc.kind = "Menu"
    /\ proc' = Proc("Exited", 0, proc.run, <<>>,
                    Outcome("exit", "none", "none", 0, FALSE), None)
    /\ UNCHANGED <<buildVars, addrVars, txVars, call, disk, chain>>

NextMain ==
    \/ \E g \in Generated : EnsureWalletInteractive(g)
    \/ \E r \in UtxoResponses : ShowBalance(r)
    \/ \E r \in UtxoResponses : DoTransaction(r)
    \/ \E a \in AddressLinesParsed : EnterSendAddress(a)
    \/ \E n \in AmountLines, s \in {"Ok", "Err"}, c \in BOOLEAN :
           EnterSendAmount(n, s, c)
    \/ \E t \in {"Err", "ListErr", "NoMatch", "One", "Many"},
          i \in NumberLines, a \in {<<55>>, <<120>>},
          b \in {<<49, 48, 48, 48>>, <<>>} :
           CreateTradeInteractive(t, i, a, b)
    \/ IndexerSeesPayment
    \/ \E r \in {"Ok", "Err"} : WaitForTransaction(r)
    \/ \E r \in UtxoResponses, s \in {"Ok", "Err"}, c \in BOOLEAN :
           ConfirmTradeInteractive(r, s, c)
    \/ \E f \in 0..5, t \in ValidTrades, r \in UtxoResponses :
           LoadTrades(f, t, r)
    \/ \E i \in NumberLines : ChooseOffer(i)
    \/ \E a \in SlpAddressLines : EnterSlpAddress(a)
    \/ \E c \in Confirms, s \in {"Ok", "Err"} : ConfirmSend(c, s)
    \/ Exit

SpecMain == InitMain /\ [][NextMain]_vars


(***************************************************************************)
(* Claims about the program, checked under SpecMain.                       *)
(***************************************************************************)

\* wait_for_transaction sleeps a second and polls again for as long as the
\* process runs, and the indexer sees a payment that was made
LiveSpecMain ==
    /\ SpecMain
    /\ WF_vars(\E r \in {"Ok", "Err"} : WaitForTransaction(r))
    /\ WF_vars(IndexerSeesPayment)

\* C16: a menu flow that a network error ended has returned to the menu: the
\* process has neither exited nor panicked.
NetworkErrorAbortsOnlyFlow ==
    proc.last.cause = "network" => proc.kind = "Menu" /\ proc.code = 0

\* C17: a menu flow that invalid user input ended has reported it and has
\* returned to the menu: the process has neither exited nor panicked.
InvalidInputIsReported ==
    proc.last.cause = "input" =>
        /\ proc.kind = "Menu"
        /\ proc.code = 0
        /\ proc.last.report # "none"

\* C18: a spending flow in which the balance did not cover the requested
\* output values and the fee has reported the insufficiency and returned to
\* the menu without a call of sign() and without sending a transaction.
InsufficiencyIsReported ==
    proc.last.short =>
        /\ proc.kind = "Menu"
        /\ proc.last.report = "insufficient balance"
        /\ proc.last.signed = 0
        /\ ~proc.last.sent

\* wait_for_transaction has returned only after a poll with a non-empty
\* list, and with the first entry of that list
ReturnsFirstOfPoll ==
    proc.kind = "Received" =>
        /\ Len(proc.pending.polled) > 0
        /\ proc.pending.returned = proc.pending.polled[1]

\* a listing was signed or sent only after wait_for_transaction returned,
\* and the listing sent announces the txid and the vout of what it returned
ListingAnnouncesReturned ==
    proc.last.flow = "create_trade" /\ proc.last.signed > 0 =>
        /\ proc.last.utxo # None
        /\ proc.last.utxo \in {Funding(k) : k \in 1..MaxFunding}
        /\ proc.last.sent =>
               /\ LET tx_id == proc.last.outputs[1].pushes[4]
                  IN  HexEncode([i \in 1..Len(tx_id) |->
                                    tx_id[Len(tx_id) + 1 - i][1]])
                          = proc.last.utxo.txid
               /\ proc.last.outputs[1].pushes[5]
                      = BigEndian4(proc.last.utxo.vout)

\* C19: wait_for_transaction returns only after a poll that returned a
\* non-empty list, with the first entry of that poll; once the indexer
\* lists a UTXO it eventually returns, and until then it keeps polling; the
\* listing is signed and sent only after it returned and announces the
\* txid and the vout of the returned UTXO.
WaitForTransactionContract ==
    /\ []ReturnsFirstOfPoll
    /\ []ListingAnnouncesReturned
    /\ [][proc.kind = "Waiting" => proc'.kind \in {"Waiting", "Received"}]_vars
    /\ (proc.kind = "Waiting" /\ Len(chain.p2sh) > 0)
           ~> (proc.kind = "Received")

\* C20: a run that finds no wallet file creates one of exactly 32 bytes, and
\* only with bytes that are a valid scalar (otherwise no file is left); a run
\* that finds a file leaves it alone and, where it holds exactly 32 bytes
\* that are a valid scalar, loads these bytes and derives their address;
\* from any other file it gets an error and no wallet.
WalletPersistence ==
    [][proc'.run = proc.run + 1 =>
        /\ disk.kind = "Absent" =>
               IF proc'.kind = "Menu"
               THEN /\ disk'.kind = "File"
                    /\ disk'.len = 32
                    /\ ValidScalar(<<disk'.bytes, 32>>)
                    /\ proc'.wallet = <<disk'.bytes, 32>>
               ELSE disk' = disk
        /\ disk.kind = "File" =>
               /\ disk' = disk
               /\ IF disk.len = 32 /\ ValidScalar(<<disk.bytes, 32>>)
                  THEN /\ proc'.kind = "Menu"
                       /\ proc'.wallet = <<disk.bytes, 32>>
                       /\ WalletAddress(proc'.wallet)
                              = WalletAddress(<<disk.bytes, 32>>)
                  ELSE /\ proc'.kind = "Exited"
                       /\ proc'.code # 0
                       /\ proc'.wallet = <<>>]_vars

(***************************************************************************)
(* Claims about the unlocking scripts of the covenant, checked under Spec. *)
(***************************************************************************)

\* the ops of the unlocking script that EnforceOutputsOutput::sig_script
\* returned for the covenant input: those below the redeem script that
\* P2SHOutput::sig_script pushes last
UnlockingOps ==
    LET ops == spend.tx.inputs[1].script.ops
    IN  SubSeq(ops, 1, Len(ops) - 1)

\* the preimage of the covenant input
SpendPreImage == PreImages(spend.tx_build, U32Of(SIGHASH_TYPE))[1]

\* the DER signature of the covenant input, without the sighash byte
SpendSignature ==
    SignDer(DoubleSha256(PreImageWriteToStream(SpendPreImage)), spend.key)

\* pre_image_end, pre_image_begin, outputs_end and 0x01, as ops 3 to 6
FragmentPushes ==
    /\ Len(UnlockingOps) = 6
    /\ \A j \in 1..6 : UnlockingOps[j].kind = "Push"
    /\ UnlockingOps[3].data
           = LimbsLE(SpendPreImage.lock_time)
                 \o LimbsLE(SpendPreImage.sighash_type)
    /\ UnlockingOps[4].data \o SpendPreImage.hash_outputs
           \o UnlockingOps[3].data
           = PreImageWriteToStream(SpendPreImage)
    /\ UnlockingOps[5].data
           = WriteOutputs(spend.tx_build.outputs,
                          Len(spend.covenant.enforced_outputs) + 1)
    /\ UnlockingOps[6].data = Bytes(<<1>>)

\* C21, as stated: in buy mode the unlocking script is six pushes: the
\* signature without its sighash byte, the public key, pre_image_end,
\* pre_image_begin, outputs_end and 0x01, in this order.
BuySigScriptSignatureFirst ==
    spend.kind = "Signed" =>
        /\ FragmentPushes
        /\ UnlockingOps[1].data = SpendSignature
        /\ UnlockingOps[2].data = PubKeySerialize(spend.key)

\* C21, amended: in buy mode the unlocking script is six pushes: the public
\* key, the signature without its sighash byte, pre_image_end,
\* pre_image_begin, outputs_end and 0x01, in this order.
BuySigScriptKeyFirst ==
    spend.kind = "Signed" =>
        /\ FragmentPushes
        /\ UnlockingOps[1].data = PubKeySerialize(spend.key)
        /\ UnlockingOps[2].data = SpendSignature

BuySigScriptKeyFirstWitness ==
    /\ spend.kind = "Signed"
    /\ spend.key = "other"
    /\ Len(spend.tx_build.outputs) = 3
    /\ UnlockingOps[5].data # <<>>
    /\ UnlockingOps[2].data = SpendSignature

\* C22: in cancel mode the unlocking script is three pushes: the signature
\* with its sighash byte, the public key, and an empty push, which is
\* written as the single byte 0x00.
CancelSigScript ==
    spend.kind = "SignedCancel" =>
        /\ UnlockingOps
               = <<Push(SpendSignature \o Bytes(<<SIGHASH_TYPE>>)),
                   Push(PubKeySerialize(spend.key)),
                   Push(<<>>)>>
        /\ OpWriteToStream(UnlockingOps[3], TRUE) = Bytes(<<0>>)

\* C24: the redeem script and the P2SH script hash depend only on the
\* enforced outputs and the cancel hash: two covenants that differ only in
\* value and is_cancel have byte-identical scripts, and a change of
\* sell_amount, buy_amount, token id, receiving hash or cancel hash changes
\* the script and the script hash.
ScriptDependsOnTermsOnly ==
    call.kind = "CompareCovenants" =>
        /\ (call.terms = call.other)
               <=> (call.created_script = call.accepted_script)
        /\ (call.terms = call.other) <=> (call.created_pkh = call.accepted_pkh)
        /\ (/\ call.created.enforced_outputs = call.accepted.enforced_outputs
            /\ call.created.cancel_address = call.accepted.cancel_address)
               <=> (call.created_script = call.accepted_script)

ScriptDependsOnTermsOnlyWitness ==
    /\ call.kind = "CompareCovenants"
    /\ call.terms = call.other
    /\ call.created.value = 0
    /\ call.accepted.value = DustAmount
    /\ call.created.is_cancel = "None"
    /\ call.accepted.is_cancel = "false"
    /\ call.created_script = call.accepted_script
    /\ Len(call.created_script) > 100

\* C28: Script::from_serialized returns a script for every byte string,
\* also for one that ends inside a push; it never aborts.
FromSerializedNeverAborts ==
    call.kind = "ScriptFromBytes" => call.result.kind = "Ok"

\* the trades of the well-formed records among outs, in their order
RECURSIVE WellFormedTrades(_, _)
WellFormedTrades(outs, i) ==
    IF i > Len(outs) THEN <<>>
    ELSE (IF \E idx \in 0..2 : outs[i] = RecordOf(ListedOffer(idx))
          THEN <<ParseTradeEntryOut(outs[i]).trade>>
          ELSE <<>>) \o WellFormedTrades(outs, i + 1)

\* C29: a record that starts with "EXCH" but is malformed is skipped
\* without aborting, and the well-formed records are still listed.
MalformedRecordsAreSkipped ==
    call.kind = "ListTrades" =>
        /\ ParseTrades(call.outs, 1, <<>>).kind = "Ok"
        /\ ParseTrades(call.outs, 1, <<>>).trades
               = WellFormedTrades(call.outs, 1)

\* C30: the outpoint that the accept flow spends for a listed offer, the
\* offer's transaction with the announced output index, is the output whose
\* script type, unspent status and value were validated; an offer that
\* announces another output index is never listed.
SpentOutpointIsValidated ==
    call.kind = "ListTrades" =>
        \A k \in 1..Len(call.result.valid_trades) :
            LET listed == call.result.valid_trades[k]
                tx_build == AcceptBuild(listed.trade,
                                Bytes(HexDecode(listed.token_id)),
                                listed.amount, "wallet", <<>>, BuyerSlp)
                outpoint == tx_build.inputs[Len(tx_build.inputs)].outpoint
            IN  \E j \in 1..Len(call.tx_details) :
                    LET tx == call.tx_details[j]
                        at == U64Value(<<0, 0>> \o outpoint.output_idx) + 1
                    IN  /\ outpoint.tx_hash = Bytes(TxHexToHash(tx.txid))
                        /\ at <= Len(tx.vout)
                        /\ tx.vout[at].type = "scripthash"
                        /\ ~tx.vout[at].spent
                        /\ ValueToSatoshis(tx.vout[at].value).v
                               = listed.amount

(***************************************************************************)
(* The builder on its own: an IncompleteTx receives add_output,            *)
(* replace_output, remove_output, pre_images and sign in any order.        *)
(***************************************************************************)
MaxBuilderOps == 4  \* add, replace and remove calls on one builder
MaxSigns == 2       \* sign calls on one builder

\* the outputs handed to add_output and replace_output
BuilderOutputs ==
    {P2PKHOutput(DustAmount, BuyerSlp), P2PKHOutput(1000, SellerReceive)}

\* a covenant UTXO that enforces one output, to be spent in buy mode
BuilderCovenant ==
    EnforceOutputsOutput(DustAmount, SellerCancel,
                         <<P2PKHOutput(1000, SellerReceive)>>, "false")

\* the inputs of a builder: covenant and wallet UTXOs
BuilderInputs ==
    LET covenant == Utxo(TxOutpoint(Bytes(TxIdPattern(0)), U32Of(1)),
                         P2SHOutput(BuilderCovenant), SequenceFinal, "other")
        first == Utxo(TxOutpoint(Bytes(TxIdPattern(1)), U32Of(0)),
                      P2PKHOutput(100000, BuyerSlp), SequenceFinal, "wallet")
        second == Utxo(TxOutpoint(Bytes(TxIdPattern(1)), U32Of(2)),
                       P2PKHOutput(600, BuyerSlp), U32Of(0), "wallet")
    IN  {<<covenant, first>>, <<first, second>>}

\* the sighash types handed to pre_images
SighashTypes == {U32Of(SIGHASH_TYPE), U32Of(1)}

\* the latest call on the builder: its name, its idx and output arguments
\* where it has them, and the builder it found
Last(op, idx, output, before) ==
    [op |-> op, idx |-> idx, output |-> output, before |-> before]

\* a builder with the numbers of add_output and remove_output calls made
\* on it; signs, the number of sign calls, starts at 0
Builder(kind, tx_build, adds, removes, last) ==
    [kind |-> kind, tx_build |-> tx_build, adds |-> adds,
     removes |-> removes, signs |-> 0, last |-> last]

\* the builder after a call that changed it
Called(tx_build, adds, removes, last) ==
    [builder EXCEPT !.tx_build = tx_build, !.adds = adds,
                    !.removes = removes, !.last = last]

\* the builder after a call that panicked
Panicked(last) == [builder EXCEPT !.kind = "panic", !.last = last]

\* IncompleteTx::new_simple followed by add_utxo for every input
BuilderNew(inputs) ==
    /\ IdleTx
    /\ builder' = Builder("Builder",
                          [NewSimple EXCEPT !.inputs = inputs], 0, 0,
                          Last("new", 0, <<>>, NewSimple))
    /\ UNCHANGED <<addrVars, txVars, restVars, product>>

\* add_output returns the index of the output it pushed
BuilderAddOutput(output) ==
    /\ builder.kind = "Builder"
    /\ builder.adds + builder.removes < MaxBuilderOps
    /\ builder' = Called(AddOutput(builder.tx_build, output),
                         builder.adds + 1, builder.removes,
                         Last("add", 0, <<output>>, builder.tx_build))
    /\ product' = [kind |-> "Index",
                   index |-> Len(AddOutput(builder.tx_build, output).outputs)
                                 - 1]
    /\ UNCHANGED <<addrVars, txVars, restVars>>

\* indexing self.outputs at idx panics when idx is not below its length
BuilderReplaceOutput(idx, output) ==
    /\ builder.kind = "Builder"
    /\ builder.adds + builder.removes < MaxBuilderOps
    /\ builder' =
           IF idx >= Len(builder.tx_build.outputs)
           THEN Panicked(Last("replace", idx, <<output>>, builder.tx_build))
           ELSE Called(ReplaceOutput(builder.tx_build, idx, output),
                       builder.adds, builder.removes,
                       Last("replace", idx, <<output>>, builder.tx_build))
    /\ product' = None
    /\ UNCHANGED <<addrVars, txVars, restVars>>

\* Vec::remove panics when idx is not below the length
BuilderRemoveOutput(idx) ==
    /\ builder.kind = "Builder"
    /\ builder.adds + builder.removes < MaxBuilderOps
    /\ builder' =
           IF idx >= Len(builder.tx_build.outputs)
           THEN Panicked(Last("remove", idx, <<>>, builder.tx_build))
           ELSE Called(RemoveOutput(builder.tx_build, idx),
                       builder.adds, builder.removes + 1,
                       Last("remove", idx, <<>>, builder.tx_build))
    /\ product' = None
    /\ UNCHANGED <<addrVars, txVars, restVars>>

\* pre_images takes &self
BuilderPreImages(sighash_type) ==
    /\ builder.kind = "Builder"
    /\ builder' = [builder EXCEPT
                      !.last = Last("pre_images", 0, <<>>, builder.tx_build)]
    /\ product' = [kind |-> "PreImages", sighash_type |-> sighash_type,
                   pre_images |-> PreImages(builder.tx_build, sighash_type)]
    /\ UNCHANGED <<addrVars, txVars, restVars>>

\* sign takes &self; it panics in sig_script when the covenant enforces
\* more outputs than the builder has
BuilderSign ==
    /\ builder.kind = "Builder"
    /\ builder.signs < MaxSigns
    /\ IF SignPanics(builder.tx_build)
       THEN /\ builder' = Panicked(Last("sign", 0, <<>>, builder.tx_build))
            /\ product' = None
       ELSE /\ builder' = [builder EXCEPT
                              !.signs = @ + 1,
                              !.last = Last("sign", 0, <<>>, builder.tx_build)]
            /\ product' = [kind |-> "Tx", tx |-> Sign(builder.tx_build)]
    /\ UNCHANGED <<addrVars, txVars, restVars>>

NextBuild ==
    \/ \E inputs \in BuilderInputs : BuilderNew(inputs)
    \/ \E output \in BuilderOutputs : BuilderAddOutput(output)
    \/ \E idx \in 0..MaxBuilderOps, output \in BuilderOutputs :
           BuilderReplaceOutput(idx, output)
    \/ \E idx \in 0..MaxBuilderOps : BuilderRemoveOutput(idx)
    \/ \E sighash_type \in SighashTypes : BuilderPreImages(sighash_type)
    \/ BuilderSign

SpecBuild == InitTx /\ [][NextBuild]_vars

(***************************************************************************)
(* Claims about the builder, checked under SpecBuild.                      *)
(***************************************************************************)

\* C23: pre_images(t) returns one PreImage per input, in input order; all
\* share hash_prevouts, hash_sequence and hash_outputs, which are the
\* double SHA-256 of all outpoints, all sequences and all outputs; the i-th
\* carries the i-th input's outpoint, sequence, value and script_code, the
\* builder's version and lock_time, and sighash_type t.
PreImagesPerInput ==
    (builder.kind = "Builder" /\ builder.last.op = "pre_images") =>
        LET tx_build == builder.tx_build
            inputs == tx_build.inputs
            pre_images == product.pre_images
        IN  /\ product.kind = "PreImages"
            /\ DOMAIN pre_images = 1..Len(inputs)
            /\ \A i \in 1..Len(inputs) :
                   /\ pre_images[i].hash_prevouts
                          = DoubleSha256(OutpointsSerialized(inputs, 1))
                   /\ pre_images[i].hash_sequence
                          = DoubleSha256(SequenceSerialized(inputs, 1))
                   /\ pre_images[i].hash_outputs
                          = DoubleSha256(WriteOutputs(tx_build.outputs, 1))
                   /\ pre_images[i].outpoint = inputs[i].outpoint
                   /\ pre_images[i].sequence = inputs[i].sequence
                   /\ pre_images[i].value = OutputValue(inputs[i].output)
                   /\ pre_images[i].script_code
                          = OutputScriptCode(inputs[i].output)
                   /\ pre_images[i].version = tx_build.version
                   /\ pre_images[i].lock_time = tx_build.lock_time
                   /\ pre_images[i].sighash_type = product.sighash_type

PreImagesPerInputWitness ==
    /\ builder.kind = "Builder"
    /\ builder.last.op = "pre_images"
    /\ Len(builder.tx_build.inputs) = 2
    /\ Len(builder.tx_build.outputs) = 2
    /\ product.sighash_type = U32Of(1)
    /\ product.pre_images[1].outpoint # product.pre_images[2].outpoint
    /\ product.pre_images[1].script_code # product.pre_images[2].script_code
    /\ product.pre_images[1].hash_outputs = product.pre_images[2].hash_outputs

\* what sign must make of input i of tx_build: the preimage is taken over
\* the outputs the builder has now
InputReflectsOutputs(tx_build, tx, i) ==
    LET input == tx_build.inputs[i]
        ops == tx.inputs[i].script.ops
        pre_image ==
            [PreImages(tx_build, U32Of(SIGHASH_TYPE))[i] EXCEPT
                !.hash_outputs = DoubleSha256(WriteOutputs(tx_build.outputs, 1))]
        sig == SignDer(DoubleSha256(PreImageWriteToStream(pre_image)),
                       input.key)
    IN  IF input.output.type = "P2SH"
        THEN /\ ops[2].data = sig
             /\ ops[5].data
                    = WriteOutputs(tx_build.outputs,
                          Len(input.output.output.enforced_outputs) + 1)
        ELSE ops[1].data = sig \o Bytes(<<SIGHASH_TYPE>>)

\* C25: sign() leaves the builder as it was, and whatever add_output,
\* replace_output, remove_output and sign calls came before, the Tx it
\* returns has the builder's current outputs, every signature is over a
\* preimage whose hash_outputs is the hash of the current outputs, and
\* outputs_end is the current outputs from index N on.
SignReflectsOutputs ==
    (builder.kind = "Builder" /\ builder.last.op = "sign") =>
        /\ builder.tx_build = builder.last.before
        /\ product.kind = "Tx"
        /\ product.tx.outputs = builder.tx_build.outputs
        /\ \A i \in 1..Len(builder.tx_build.inputs) :
               InputReflectsOutputs(builder.tx_build, product.tx, i)

SignReflectsOutputsWitness ==
    /\ builder.kind = "Builder"
    /\ builder.last.op = "sign"
    /\ builder.signs = 2
    /\ builder.adds = 3
    /\ builder.removes = 1
    /\ builder.tx_build.inputs[1].output.type = "P2SH"
    /\ Len(product.tx.outputs) = 2
    /\ product.tx.inputs[1].script.ops[5].data
           = WriteOutputs(product.tx.outputs, 2)
    /\ product.tx.outputs[1] # product.tx.outputs[2]

\* the TxOutput that add_output and replace_output make of their argument
Written(output) == TxOutputNew(OutputValue(output), OutputScript(output))

\* C26: add_output returns the previous length and appends; replace_output
\* changes position idx only and keeps the length; remove_output deletes
\* position idx and shifts the later outputs down by one; the number of
\* outputs is the number of add_output calls minus the number of
\* remove_output calls.
OutputIndexDiscipline ==
    builder.kind = "Builder" =>
        LET outputs == builder.tx_build.outputs
            before == builder.last.before.outputs
            idx == builder.last.idx
        IN  /\ Len(outputs) = builder.adds - builder.removes
            /\ builder.last.op = "add" =>
                   /\ product = [kind |-> "Index", index |-> Len(before)]
                   /\ outputs = Append(before, Written(builder.last.output[1]))
            /\ builder.last.op = "replace" =>
                   /\ Len(outputs) = Len(before)
                   /\ outputs[idx + 1] = Written(builder.last.output[1])
                   /\ \A j \in 1..Len(before) :
                          j # idx + 1 => outputs[j] = before[j]
            /\ builder.last.op = "remove" =>
                   /\ Len(outputs) = Len(before) - 1
                   /\ \A j \in 1..Len(outputs) :
                          outputs[j] = IF j <= idx THEN before[j]
                                       ELSE before[j + 1]

OutputIndexDisciplineWitness ==
    /\ builder.kind = "Builder"
    /\ builder.last.op = "remove"
    /\ builder.last.idx = 0
    /\ builder.adds = 3
    /\ builder.removes = 1
    /\ Len(builder.last.before.outputs) = 3
    /\ builder.last.before.outputs[2] # builder.last.before.outputs[3]
    /\ builder.tx_build.outputs[1] = builder.last.before.outputs[2]
    /\ builder.tx_build.outputs[2] = builder.last.before.outputs[3]

(***************************************************************************)
(* Claims about the amounts of the send flow, checked under SpecMain.      *)
(***************************************************************************)

\* estimated_size of do_transaction: the builder of the wallet's UTXOs with
\* the payment and the change output added
SendEstimatedSize(wallet, utxos) ==
    EstimateSize(
        AddOutput(
            AddOutput(InitTransaction(wallet, utxos).tx_build,
                      P2PKHOutput(0, WalletAddress(wallet))),
            P2PKHOutput(0, WalletAddress(wallet))))

RECURSIVE SentTotal(_, _)
\* the sum of the values of the outputs from index i on
SentTotal(outputs, i) ==
    IF i > Len(outputs) THEN 0
    ELSE outputs[i].value[2] + SentTotal(outputs, i + 1)

\* C27: in the send flow, for every balance of at least the dust amount,
\* every number of UTXOs and every amount, "all" included, no u64
\* subtraction underflows, and the values of the outputs sum to at most
\* balance - (estimated_size + 5).
SendStaysWithinBalance ==
    [][(proc.kind = "AmountPrompt" /\ proc'.kind # "AmountPrompt") =>
          LET balance ==
                  InitTransaction(proc.wallet, proc.pending.utxos).balance
              fee == SendEstimatedSize(proc.wallet, proc.pending.utxos) + 5
              outputs == proc'.last.outputs
          IN  balance >= DustAmount =>
                  /\ ~(proc'.kind = "Panicked" /\ proc'.last.cause = "funds")
                  /\ \A j \in 1..Len(outputs) :
                         outputs[j].value[1] = "exact"
                  /\ proc'.last.sent =>
                         /\ balance >= fee
                         /\ SentTotal(outputs, 1) <= balance - fee]_vars

=============================================================================
